---- MODULE Spec2Model ----
(***************************************************************************)
(* A model of the api package of newrelic-cli: the NerdGraph client, the   *)
(* identifier resolver and the response mappers.                           *)
(*                                                                         *)
(* Go strings that the code inspects byte by byte (identifiers, GUIDs) are *)
(* sequences of byte values; strings the code only passes around (JSON     *)
(* keys, messages, names) are TLA+ strings.  An error built by fmt.Errorf  *)
(* is kept as its format string and its arguments.                         *)
(***************************************************************************)
EXTENDS Integers, Sequences, FiniteSets, TLC

VARIABLES
    AccountID,  \* Client.AccountID, fixed at construction
    pc,         \* "idle" | "wait" (a request is in flight) | "done"
    call,       \* the operation being executed and its arguments
    requests,   \* the HTTP requests the running operation has issued
    replies,    \* the HTTP replies the running operation has received
    ret,        \* what the operation returned: [err |-> ..., val |-> ...]
    server,     \* the reads and writes of the stored log parsing rule, in order
    stored      \* the credentials file: the value stored under each key

vars == <<AccountID, pc, call, requests, replies, ret, server, stored>>

-----------------------------------------------------------------------------
(* Byte strings *)

Digits == <<"0", "1", "2", "3", "4", "5", "6", "7", "8", "9">>
Upper == <<"A", "B", "C", "D", "E", "F", "G", "H", "I", "J", "K", "L", "M",
           "N", "O", "P", "Q", "R", "S", "T", "U", "V", "W", "X", "Y", "Z">>
Lower == <<"a", "b", "c", "d", "e", "f", "g", "h", "i", "j", "k", "l", "m",
           "n", "o", "p", "q", "r", "s", "t", "u", "v", "w", "x", "y", "z">>

IndexOf(seq, x) == CHOOSE i \in 1..Len(seq) : seq[i] = x
Has(seq, x) == \E i \in 1..Len(seq) : seq[i] = x

\* The byte value of an ASCII character.
Ord(ch) ==
    IF Has(Digits, ch) THEN 47 + IndexOf(Digits, ch)
    ELSE IF Has(Upper, ch) THEN 64 + IndexOf(Upper, ch)
    ELSE IF Has(Lower, ch) THEN 96 + IndexOf(Lower, ch)
    ELSE CASE ch = " " -> 32
           [] ch = "+" -> 43
           [] ch = "," -> 44
           [] ch = "-" -> 45
           [] ch = "." -> 46
           [] ch = "/" -> 47
           [] ch = ":" -> 58
           [] ch = "=" -> 61
           [] ch = "_" -> 95
           [] ch = "|" -> 124
           [] ch = "\n" -> 10

\* The Go string written as the sequence of characters chars.
B(chars) == [i \in 1..Len(chars) |-> Ord(chars[i])]

RECURSIVE Repeat(_, _)
Repeat(s, n) == IF n = 0 THEN <<>> ELSE s \o Repeat(s, n - 1)

\* strings.Split(s, sep) for a one-byte separator
RECURSIVE SplitFrom(_, _, _, _)
SplitFrom(s, sep, i, cur) ==
    IF i > Len(s) THEN <<cur>>
    ELSE IF s[i] = sep THEN <<cur>> \o SplitFrom(s, sep, i + 1, <<>>)
    ELSE SplitFrom(s, sep, i + 1, Append(cur, s[i]))

Split(s, sep) == SplitFrom(s, sep, 1, <<>>)

\* strings.Join(parts, sep)
RECURSIVE Join(_, _)
Join(parts, sep) ==
    IF Len(parts) = 0 THEN <<>>
    ELSE IF Len(parts) = 1 THEN parts[1]
    ELSE parts[1] \o <<sep>> \o Join(Tail(parts), sep)

Pipe == 124
PadChar == 61

-----------------------------------------------------------------------------
(* encoding/base64, StdEncoding: standard alphabet, '=' padding, not strict *)

base64Std == B(<<"A", "B", "C", "D", "E", "F", "G", "H", "I", "J", "K", "L", "M",
                 "N", "O", "P", "Q", "R", "S", "T", "U", "V", "W", "X", "Y", "Z",
                 "a", "b", "c", "d", "e", "f", "g", "h", "i", "j", "k", "l", "m",
                 "n", "o", "p", "q", "r", "s", "t", "u", "v", "w", "x", "y", "z",
                 "0", "1", "2", "3", "4", "5", "6", "7", "8", "9", "+", "/">>)

\* decodeMap: the 6-bit value of an alphabet byte, -1 for any other byte
B64Val(c) ==
    IF Has(base64Std, c) THEN IndexOf(base64Std, c) - 1 ELSE -1

RECURSIVE EncodeToString(_)
EncodeToString(src) ==
    IF Len(src) = 0 THEN <<>>
    ELSE IF Len(src) = 1 THEN
        <<base64Std[(src[1] \div 4) + 1],
          base64Std[((src[1] % 4) * 16) + 1],
          PadChar, PadChar>>
    ELSE IF Len(src) = 2 THEN
        <<base64Std[(src[1] \div 4) + 1],
          base64Std[((src[1] % 4) * 16 + (src[2] \div 16)) + 1],
          base64Std[((src[2] % 16) * 4) + 1],
          PadChar>>
    ELSE
        <<base64Std[(src[1] \div 4) + 1],
          base64Std[((src[1] % 4) * 16 + (src[2] \div 16)) + 1],
          base64Std[((src[2] % 16) * 4 + (src[3] \div 64)) + 1],
          base64Std[(src[3] % 64) + 1]>>
        \o EncodeToString(SubSeq(src, 4, Len(src)))

\* The decoder skips '\r' and '\n' wherever they occur.
StripNewlines(s) == SelectSeq(s, LAMBDA c : c # 10 /\ c # 13)

\* Decodes the quanta of s, which holds no newline.  A quantum is four
\* alphabet bytes; the last one may be "xx==" or "xxx=".  Bits left over
\* in a padded quantum are dropped.
RECURSIVE DecodeQuanta(_)
DecodeQuanta(s) ==
    LET corrupt == [ok |-> FALSE, bytes |-> <<>>]
        prepend(bytes, rest) ==
            IF rest.ok THEN [ok |-> TRUE, bytes |-> bytes \o rest.bytes] ELSE corrupt
        quantum(v1, v2, v3, v4) ==
            IF v1 < 0 \/ v2 < 0 THEN corrupt
            ELSE IF v3 < 0 THEN
                IF s[3] = PadChar /\ s[4] = PadChar /\ Len(s) = 4
                THEN [ok |-> TRUE, bytes |-> <<v1 * 4 + (v2 \div 16)>>]
                ELSE corrupt
            ELSE IF v4 < 0 THEN
                IF s[4] = PadChar /\ Len(s) = 4
                THEN [ok |-> TRUE,
                      bytes |-> <<v1 * 4 + (v2 \div 16), (v2 % 16) * 16 + (v3 \div 4)>>]
                ELSE corrupt
            ELSE prepend(<<v1 * 4 + (v2 \div 16), (v2 % 16) * 16 + (v3 \div 4),
                           (v3 % 4) * 64 + v4>>,
                         DecodeQuanta(SubSeq(s, 5, Len(s))))
    IN  IF Len(s) = 0 THEN [ok |-> TRUE, bytes |-> <<>>]
        ELSE IF Len(s) < 4 THEN corrupt
        ELSE quantum(B64Val(s[1]), B64Val(s[2]), B64Val(s[3]), B64Val(s[4]))

DecodeString(s) == DecodeQuanta(StripNewlines(s))

-----------------------------------------------------------------------------
(* Errors *)

NoErr == [type |-> "nil"]

\* &ResponseError{Message: msg}
ResponseError(msg) == [type |-> "ResponseError", msg |-> msg]
\* &APIError{StatusCode: status, Body: body}
APIError(status) == [type |-> "APIError", status |-> status]
\* &GraphQLError{Message: msg}
GraphQLError(msg) == [type |-> "GraphQLError", msg |-> msg]
\* fmt.Errorf(format, args...)
Errorf(format, args) == [type |-> "errorString", format |-> format, args |-> args]

IsErr(e) == e.type # "nil"

-----------------------------------------------------------------------------
(* GUIDs *)

\* ParseGUID that returns the type before the domain
ParseGUID_TypeFirst(guid) ==
    LET split(parts) ==
            IF Len(parts) # 4
            THEN [err |-> Errorf("invalid GUID format: expected 4 parts, got %d", <<Len(parts)>>),
                  parts |-> <<>>]
            ELSE [err |-> NoErr, parts |-> <<parts[1], parts[3], parts[2], parts[4]>>]
        decode(decoded) ==
            IF ~decoded.ok
            THEN [err |-> Errorf("invalid GUID format: %w", <<"illegal base64 data">>),
                  parts |-> <<>>]
            ELSE split(Split(decoded.bytes, Pipe))
    IN  decode(DecodeString(guid))

\* ParseGUID: base64-decode, split on '|', exactly four parts
ParseGUID(guid) ==
    LET split(parts) ==
            IF Len(parts) # 4
            THEN [err |-> Errorf("invalid GUID format: expected 4 parts, got %d", <<Len(parts)>>),
                  parts |-> <<>>]
            ELSE [err |-> NoErr, parts |-> parts]
        decode(decoded) ==
            IF ~decoded.ok
            THEN [err |-> Errorf("invalid GUID format: %w", <<"illegal base64 data">>),
                  parts |-> <<>>]
            ELSE split(Split(decoded.bytes, Pipe))
    IN  decode(DecodeString(guid))

APM == B(<<"A", "P", "M">>)
APPLICATION == B(<<"A", "P", "P", "L", "I", "C", "A", "T", "I", "O", "N">>)

\* ExtractAppIDFromGUID that looks at the domain alone
ExtractAppIDFromGUID_AnyType(guid) ==
    LET extract(g) ==
            IF IsErr(g.err) THEN [err |-> g.err, val |-> <<>>]
            ELSE IF g.parts[2] # APM
            THEN [err |-> Errorf("GUID is not for an APM application (domain=%s, type=%s)",
                                 <<g.parts[2], g.parts[3]>>),
                  val |-> <<>>]
            ELSE [err |-> NoErr, val |-> g.parts[4]]
    IN  extract(ParseGUID(guid))

\* ExtractAppIDFromGUID: the fourth part of an APM/APPLICATION GUID
ExtractAppIDFromGUID(guid) ==
    LET extract(g) ==
            IF IsErr(g.err) THEN [err |-> g.err, val |-> <<>>]
            ELSE IF g.parts[2] # APM \/ g.parts[3] # APPLICATION
            THEN [err |-> Errorf("GUID is not for an APM application (domain=%s, type=%s)",
                                 <<g.parts[2], g.parts[3]>>),
                  val |-> <<>>]
            ELSE [err |-> NoErr, val |-> g.parts[4]]
    IN  extract(ParseGUID(guid))

\* isNumeric with the lower comparison off by one ('0' itself rejected)
isNumeric_OffByOne(s) ==
    /\ s # <<>>
    /\ \A i \in 1..Len(s) : ~(s[i] <= 48 \/ s[i] > 57)

\* isNumeric: non-empty and every byte in '0'..'9'
isNumeric(s) ==
    /\ s # <<>>
    /\ \A i \in 1..Len(s) : ~(s[i] < 48 \/ s[i] > 57)

\* base64Chars: the alphabet plus '='
base64Chars == base64Std \o <<PadChar>>

GUIDMinLen == 40

\* looksLikeGUID with the length test off by one (more than 40 bytes)
looksLikeGUID_OffByOne(s) ==
    /\ ~(Len(s) <= GUIDMinLen)
    /\ \A i \in 1..Len(s) : Has(base64Chars, s[i])

\* looksLikeGUID: at least 40 bytes, all of them base64 characters
looksLikeGUID(s) ==
    /\ ~(Len(s) < GUIDMinLen)
    /\ \A i \in 1..Len(s) : Has(base64Chars, s[i])

-----------------------------------------------------------------------------
(* Untyped JSON trees (interface{} values produced by encoding/json) *)

Null == [t |-> "null"]
Str(s) == [t |-> "str", s |-> s]
Num(n) == [t |-> "num", n |-> n]
Bool(b) == [t |-> "bool", b |-> b]
Obj(f) == [t |-> "obj", f |-> f]
List(l) == [t |-> "list", l |-> l]

\* m[key] on a map[string]interface{}: nil when m is nil or lacks the key
Get(m, key) ==
    IF m.t = "obj" /\ key \in DOMAIN m.f THEN m.f[key] ELSE Null

\* safeString: the string, "" for anything else
safeString(v) == IF v.t = "str" THEN v.s ELSE <<>>

\* safeInt: the number truncated, 0 for anything else
safeInt(v) == IF v.t = "num" THEN v.n ELSE 0

\* safeMap that takes nil for an empty map
safeMap_NilOk(v) ==
    IF v.t \in {"obj", "null"} THEN [m |-> v, ok |-> TRUE] ELSE [m |-> Null, ok |-> FALSE]

\* safeMap: (m, ok)
safeMap(v) == IF v.t = "obj" THEN [m |-> v, ok |-> TRUE] ELSE [m |-> Null, ok |-> FALSE]

\* safeSlice: (s, ok)
safeSlice(v) == IF v.t = "list" THEN [s |-> v.l, ok |-> TRUE] ELSE [s |-> <<>>, ok |-> FALSE]

-----------------------------------------------------------------------------
(* The transport.  A function that performs requests is an operator of its *)
(* arguments and of the replies delivered to it so far: it either asks for *)
(* the next request to be sent or returns.                                 *)

Pending(req) == [k |-> "req", req |-> req]
Returned(err, val, used) == [k |-> "ret", err |-> err, val |-> val, used |-> used]

\* doRequest: send, then fail on a transport error or a status >= 400
doRequest(method, url, body, reps) ==
    IF reps = <<>> THEN Pending([method |-> method, url |-> url, body |-> body])
    ELSE LET resp == reps[1]
         IN  IF resp.transport = "doFailed"
             THEN Returned(ResponseError("request failed"), Null, 1)
             ELSE IF resp.transport = "readFailed"
             THEN Returned(ResponseError("failed to read response"), Null, 1)
             ELSE IF resp.status >= 400
             THEN Returned(APIError(resp.status), Null, 1)
             ELSE Returned(NoErr, resp.body, 1)

\* NerdGraphQuery that returns the data that comes along with errors
NerdGraphQuery_PartialSuccess(query, variables, reps) ==
    LET decode(d) ==
            IF d.k = "req" THEN d
            ELSE IF IsErr(d.err) THEN Returned(d.err, Null, d.used)
            ELSE IF ~d.val.json
            THEN Returned(ResponseError("failed to parse response"), Null, d.used)
            ELSE IF Len(d.val.errors) > 0 /\ d.val.data = Null
            THEN Returned(GraphQLError(d.val.errors[1]), Null, d.used)
            ELSE Returned(NoErr, d.val.data, d.used)
    IN  decode(doRequest("POST", "NerdGraphURL", [query |-> query, variables |-> variables], reps))

\* NerdGraphQuery: POST the query, decode {data, errors}, fail on errors
NerdGraphQuery(query, variables, reps) ==
    LET decode(d) ==
            IF d.k = "req" THEN d
            ELSE IF IsErr(d.err) THEN Returned(d.err, Null, d.used)
            ELSE IF ~d.val.json
            THEN Returned(ResponseError("failed to parse response"), Null, d.used)
            ELSE IF Len(d.val.errors) > 0
            THEN Returned(GraphQLError(d.val.errors[1]), Null, d.used)
            ELSE Returned(NoErr, d.val.data, d.used)
    IN  decode(doRequest("POST", "NerdGraphURL", [query |-> query, variables |-> variables], reps))

\* The chain of safeMap(m[key]) steps with which a mapper descends into a
\* response: the map reached, or the error of the first step that fails
RECURSIVE WalkMaps(_, _, _)
WalkMaps(m, keys, errs) ==
    LET step(next) ==
            IF ~next.ok THEN [ok |-> FALSE, err |-> Head(errs), m |-> Null]
            ELSE WalkMaps(next.m, Tail(keys), Tail(errs))
    IN  IF keys = <<>> THEN [ok |-> TRUE, err |-> NoErr, m |-> m]
        ELSE step(safeMap(Get(m, Head(keys))))

-----------------------------------------------------------------------------
(* Entity search *)

Entity(entity) ==
    [GUID |-> safeString(Get(entity, "guid")),
     Name |-> safeString(Get(entity, "name")),
     Type |-> safeString(Get(entity, "type")),
     EntityType |-> safeString(Get(entity, "entityType")),
     Domain |-> safeString(Get(entity, "domain")),
     AccountID |-> safeInt(Get(entity, "accountId"))]

RECURSIVE EntitiesOf(_)
EntitiesOf(entitiesData) ==
    LET append(entity) ==
            IF ~entity.ok THEN EntitiesOf(Tail(entitiesData))
            ELSE <<Entity(entity.m)>> \o EntitiesOf(Tail(entitiesData))
    IN  IF entitiesData = <<>> THEN <<>> ELSE append(safeMap(Head(entitiesData)))

SearchEntities(queryStr, reps) ==
    LET list(q, entitiesData) ==
            IF ~entitiesData.ok
            THEN Returned(ResponseError("unexpected response format: missing entities"), <<>>, q.used)
            ELSE Returned(NoErr, EntitiesOf(entitiesData.s), q.used)
        walked(q, results) ==
            IF ~results.ok THEN Returned(results.err, <<>>, q.used)
            ELSE list(q, safeSlice(Get(results.m, "entities")))
        map(q) ==
            IF q.k = "req" THEN q
            ELSE IF IsErr(q.err) THEN Returned(q.err, <<>>, q.used)
            ELSE walked(q, WalkMaps(q.val, <<"actor", "entitySearch", "results">>,
                    <<ResponseError("unexpected response format: missing actor"),
                      ResponseError("unexpected response format: missing entitySearch"),
                      ResponseError("unexpected response format: missing results")>>))
    IN  map(NerdGraphQuery("actor.entitySearch.results.entities", [query |-> queryStr], reps))

-----------------------------------------------------------------------------
(* The identifier resolver *)

AppNameQuery(name) ==
    [format |-> "name = '%s' AND domain = 'APM' AND type = 'APPLICATION'", args |-> <<name>>]

\* resolveAppName that looks the unique match up a second time
resolveAppName_SecondLookup(name, reps) ==
    LET extract(s, a) ==
            IF IsErr(a.err)
            THEN Returned(Errorf("failed to extract app ID from entity: %w", <<a.err>>), <<>>, s.used)
            ELSE Returned(NoErr, a.val, s.used)
        second(s, again) ==
            IF again.k = "req" THEN again
            ELSE extract(s, ExtractAppIDFromGUID(s.val[1].GUID))
        found(s) ==
            IF s.k = "req" THEN s
            ELSE IF IsErr(s.err)
            THEN Returned(Errorf("failed to search for application: %w", <<s.err>>), <<>>, s.used)
            ELSE IF Len(s.val) = 0
            THEN Returned(Errorf("no APM application found with name: %s", <<name>>), <<>>, s.used)
            ELSE IF Len(s.val) > 1
            THEN Returned(Errorf("multiple applications found with name '%s', please use --guid or app ID",
                                 <<name>>), <<>>, s.used)
            ELSE second(s, SearchEntities(AppNameQuery(name), SubSeq(reps, s.used + 1, Len(reps))))
    IN  found(SearchEntities(AppNameQuery(name), reps))

\* resolveAppName that takes the first of two candidates
resolveAppName_PickFirst(name, reps) ==
    LET extract(s, a) ==
            IF IsErr(a.err)
            THEN Returned(Errorf("failed to extract app ID from entity: %w", <<a.err>>), <<>>, s.used)
            ELSE Returned(NoErr, a.val, s.used)
        found(s) ==
            IF s.k = "req" THEN s
            ELSE IF IsErr(s.err)
            THEN Returned(Errorf("failed to search for application: %w", <<s.err>>), <<>>, s.used)
            ELSE IF Len(s.val) = 0
            THEN Returned(Errorf("no APM application found with name: %s", <<name>>), <<>>, s.used)
            ELSE IF Len(s.val) > 2
            THEN Returned(Errorf("multiple applications found with name '%s', please use --guid or app ID",
                                 <<name>>), <<>>, s.used)
            ELSE extract(s, ExtractAppIDFromGUID(s.val[1].GUID))
    IN  found(SearchEntities(AppNameQuery(name), reps))

\* resolveAppName: search by exact name; zero or several matches are errors
resolveAppName(name, reps) ==
    LET extract(s, a) ==
            IF IsErr(a.err)
            THEN Returned(Errorf("failed to extract app ID from entity: %w", <<a.err>>), <<>>, s.used)
            ELSE Returned(NoErr, a.val, s.used)
        found(s) ==
            IF s.k = "req" THEN s
            ELSE IF IsErr(s.err)
            THEN Returned(Errorf("failed to search for application: %w", <<s.err>>), <<>>, s.used)
            ELSE IF Len(s.val) = 0
            THEN Returned(Errorf("no APM application found with name: %s", <<name>>), <<>>, s.used)
            ELSE IF Len(s.val) > 1
            THEN Returned(Errorf("multiple applications found with name '%s', please use --guid or app ID",
                                 <<name>>), <<>>, s.used)
            ELSE extract(s, ExtractAppIDFromGUID(s.val[1].GUID))
    IN  found(SearchEntities(AppNameQuery(name), reps))

\* ResolveAppID that returns the GUID failure instead of falling through
ResolveAppID_NoFallThrough(identifier, reps) ==
    LET asGUID(g) == Returned(g.err, g.val, 0)
    IN  IF isNumeric(identifier) THEN Returned(NoErr, identifier, 0)
        ELSE IF looksLikeGUID(identifier) THEN asGUID(ExtractAppIDFromGUID(identifier))
        ELSE resolveAppName(identifier, reps)

\* ResolveAppID: a numeric ID as it is, else the ID of a GUID, else by name
ResolveAppID(identifier, reps) ==
    LET asGUID(g) ==
            IF ~IsErr(g.err) THEN Returned(NoErr, g.val, 0)
            ELSE resolveAppName(identifier, reps)
    IN  IF isNumeric(identifier) THEN Returned(NoErr, identifier, 0)
        ELSE IF looksLikeGUID(identifier) THEN asGUID(ExtractAppIDFromGUID(identifier))
        ELSE resolveAppName(identifier, reps)

-----------------------------------------------------------------------------
(* API access keys.  A query is named by its selection path; the values    *)
(* the code interpolates with Sprintf travel as its variables.             *)

NoKey == [ID |-> <<>>, Name |-> <<>>, Notes |-> <<>>, Type |-> <<>>, Key |-> <<>>,
          IngestType |-> <<>>]

\* parseApiAccessKey: the zero ApiAccessKey for anything that is no object
parseApiAccessKey(v) ==
    LET parse(m) ==
            IF ~m.ok THEN NoKey
            ELSE [ID |-> safeString(Get(m.m, "id")),
                  Name |-> safeString(Get(m.m, "name")),
                  Notes |-> safeString(Get(m.m, "notes")),
                  Type |-> safeString(Get(m.m, "type")),
                  Key |-> safeString(Get(m.m, "key")),
                  IngestType |-> safeString(Get(m.m, "ingestType"))]
    IN  parse(safeMap(v))

\* SearchAPIKeys: one ApiAccessKey for every element of keys
SearchAPIKeys(keyTypes, accountID, reps) ==
    LET list(q, keysData) ==
            IF ~keysData.ok
            THEN Returned(ResponseError("unexpected response format: missing keys"), <<>>, q.used)
            ELSE Returned(NoErr,
                          [i \in 1..Len(keysData.s) |-> parseApiAccessKey(keysData.s[i])],
                          q.used)
        walked(q, keySearch) ==
            IF ~keySearch.ok THEN Returned(keySearch.err, <<>>, q.used)
            ELSE list(q, safeSlice(Get(keySearch.m, "keys")))
        map(q) ==
            IF q.k = "req" THEN q
            ELSE IF IsErr(q.err) THEN Returned(q.err, <<>>, q.used)
            ELSE walked(q, WalkMaps(q.val, <<"actor", "apiAccess", "keySearch">>,
                    <<ResponseError("unexpected response format: missing actor"),
                      ResponseError("unexpected response format: missing apiAccess"),
                      ResponseError("unexpected response format: missing keySearch")>>))
    IN  map(NerdGraphQuery("actor.apiAccess.keySearch.keys",
                           [types |-> keyTypes, accountID |-> accountID], reps))

\* GetAPIAccessKey: the key of the given type, "key not found" without one
GetAPIAccessKey(keyID, keyType, reps) ==
    LET found(q, keyData) ==
            IF ~keyData.ok THEN Returned(Errorf("key not found: %s", <<keyID>>), Null, q.used)
            ELSE Returned(NoErr, parseApiAccessKey(keyData.m), q.used)
        walked(q, apiAccess) ==
            IF ~apiAccess.ok THEN Returned(apiAccess.err, Null, q.used)
            ELSE found(q, safeMap(Get(apiAccess.m, "key")))
        map(q) ==
            IF q.k = "req" THEN q
            ELSE IF IsErr(q.err) THEN Returned(q.err, Null, q.used)
            ELSE walked(q, WalkMaps(q.val, <<"actor", "apiAccess">>,
                    <<ResponseError("unexpected response format: missing actor"),
                      ResponseError("unexpected response format: missing apiAccess")>>))
    IN  map(NerdGraphQuery("actor.apiAccess.key", [id |-> keyID, keyType |-> keyType], reps))

\* FindAPIAccessKey that looks the key up as USER once more when the
\* INGEST lookup fails
FindAPIAccessKey_ThirdProbe(keyID, reps) ==
    LET again(used, u) ==
            IF u.k = "req" THEN u ELSE Returned(u.err, u.val, used + u.used)
        ingest(user, i) ==
            IF i.k = "req" THEN i
            ELSE IF ~IsErr(i.err) THEN Returned(i.err, i.val, user.used + i.used)
            ELSE again(user.used + i.used,
                       GetAPIAccessKey(keyID, "USER",
                                       SubSeq(reps, user.used + i.used + 1, Len(reps))))
        first(user) ==
            IF user.k = "req" THEN user
            ELSE IF ~IsErr(user.err) THEN user
            ELSE ingest(user, GetAPIAccessKey(keyID, "INGEST",
                                              SubSeq(reps, user.used + 1, Len(reps))))
    IN  first(GetAPIAccessKey(keyID, "USER", reps))

\* FindAPIAccessKey that looks the key up as INGEST first
FindAPIAccessKey_IngestFirst(keyID, reps) ==
    LET user(ingest, u) ==
            IF u.k = "req" THEN u ELSE Returned(u.err, u.val, ingest.used + u.used)
        first(ingest) ==
            IF ingest.k = "req" THEN ingest
            ELSE IF ~IsErr(ingest.err) THEN ingest
            ELSE user(ingest, GetAPIAccessKey(keyID, "USER",
                                              SubSeq(reps, ingest.used + 1, Len(reps))))
    IN  first(GetAPIAccessKey(keyID, "INGEST", reps))

\* FindAPIAccessKey: the USER key, else whatever the INGEST lookup returns
FindAPIAccessKey(keyID, reps) ==
    LET ingest(user, i) ==
            IF i.k = "req" THEN i ELSE Returned(i.err, i.val, user.used + i.used)
        first(user) ==
            IF user.k = "req" THEN user
            ELSE IF ~IsErr(user.err) THEN user
            ELSE ingest(user, GetAPIAccessKey(keyID, "INGEST",
                                              SubSeq(reps, user.used + 1, Len(reps))))
    IN  first(GetAPIAccessKey(keyID, "USER", reps))

\* execCreateKeys: the embedded errors first, then the first created key
execCreateKeys(mutation, reps) ==
    LET created(q, createdKeys) ==
            IF ~createdKeys.ok \/ Len(createdKeys.s) = 0
            THEN Returned(ResponseError("unexpected response format: no created keys returned"),
                          Null, q.used)
            ELSE Returned(NoErr, parseApiAccessKey(createdKeys.s[1]), q.used)
        checked(q, createResult, errors) ==
            IF errors.ok /\ Len(errors.s) > 0
            THEN Returned(Errorf("failed to create key: %s",
                                 <<safeString(Get(errors.s[1], "message"))>>), Null, q.used)
            ELSE created(q, safeSlice(Get(createResult.m, "createdKeys")))
        result(q, createResult) ==
            IF ~createResult.ok
            THEN Returned(ResponseError("unexpected response format"), Null, q.used)
            ELSE checked(q, createResult, safeSlice(Get(createResult.m, "errors")))
        map(q) ==
            IF q.k = "req" THEN q
            ELSE IF IsErr(q.err) THEN Returned(q.err, Null, q.used)
            ELSE result(q, safeMap(Get(q.val, "apiAccessCreateKeys")))
    IN  map(NerdGraphQuery("apiAccessCreateKeys", mutation, reps))

\* CreateUserAPIKey
CreateUserAPIKey(accountID, userID, name, notes, reps) ==
    execCreateKeys([user |-> [accountId |-> accountID, userId |-> userID,
                              name |-> name, notes |-> notes]], reps)

\* CreateIngestAPIKey
CreateIngestAPIKey(accountID, ingestType, name, notes, reps) ==
    execCreateKeys([ingest |-> [accountId |-> accountID, ingestType |-> ingestType,
                                name |-> name, notes |-> notes]], reps)

\* GetCurrentUserID: the id of actor.user as an integer
GetCurrentUserID(reps) ==
    LET walked(q, user) ==
            IF ~user.ok THEN Returned(user.err, 0, q.used)
            ELSE Returned(NoErr, safeInt(Get(user.m, "id")), q.used)
        map(q) ==
            IF q.k = "req" THEN q
            ELSE IF IsErr(q.err) THEN Returned(q.err, 0, q.used)
            ELSE walked(q, WalkMaps(q.val, <<"actor", "user">>,
                    <<ResponseError("unexpected response format: missing actor"),
                      ResponseError("unexpected response format: missing user")>>))
    IN  map(NerdGraphQuery("actor.user", Null, reps))

\* UpdateAPIAccessKey: the embedded errors first, then the first updated key
UpdateAPIAccessKey(keyID, keyType, update, reps) ==
    LET updated(q, updatedKeys) ==
            IF ~updatedKeys.ok \/ Len(updatedKeys.s) = 0
            THEN Returned(ResponseError("unexpected response format: no updated keys returned"),
                          Null, q.used)
            ELSE Returned(NoErr, parseApiAccessKey(updatedKeys.s[1]), q.used)
        checked(q, updateResult, errors) ==
            IF errors.ok /\ Len(errors.s) > 0
            THEN Returned(Errorf("failed to update key: %s",
                                 <<safeString(Get(errors.s[1], "message"))>>), Null, q.used)
            ELSE updated(q, safeSlice(Get(updateResult.m, "updatedKeys")))
        result(q, updateResult) ==
            IF ~updateResult.ok
            THEN Returned(ResponseError("unexpected response format"), Null, q.used)
            ELSE checked(q, updateResult, safeSlice(Get(updateResult.m, "errors")))
        map(q) ==
            IF q.k = "req" THEN q
            ELSE IF IsErr(q.err) THEN Returned(q.err, Null, q.used)
            ELSE result(q, safeMap(Get(q.val, "apiAccessUpdateKeys")))
    IN  IF keyType \notin {"USER", "INGEST"}
        THEN Returned(Errorf("invalid key type: %s (must be USER or INGEST)", <<keyType>>),
                      Null, 0)
        ELSE map(NerdGraphQuery("apiAccessUpdateKeys",
                     [bucket |-> IF keyType = "USER" THEN "user" ELSE "ingest",
                      keyId |-> keyID, update |-> update], reps))

\* DeleteAPIAccessKeys: the embedded errors first, then the IDs of the
\* deleted keys; nothing at all when deletedKeys is no list
DeleteAPIAccessKeys(userKeyIDs, ingestKeyIDs, reps) ==
    LET deleted(q, deletedKeys) ==
            IF ~deletedKeys.ok THEN Returned(NoErr, <<>>, q.used)
            ELSE Returned(NoErr,
                          [i \in 1..Len(SelectSeq(deletedKeys.s, LAMBDA k : k.t = "obj")) |->
                              safeString(Get(SelectSeq(deletedKeys.s, LAMBDA k : k.t = "obj")[i],
                                             "id"))],
                          q.used)
        checked(q, deleteResult, errors) ==
            IF errors.ok /\ Len(errors.s) > 0
            THEN Returned(Errorf("failed to delete keys: %s",
                                 <<safeString(Get(errors.s[1], "message"))>>), <<>>, q.used)
            ELSE deleted(q, safeSlice(Get(deleteResult.m, "deletedKeys")))
        result(q, deleteResult) ==
            IF ~deleteResult.ok
            THEN Returned(ResponseError("unexpected response format"), <<>>, q.used)
            ELSE checked(q, deleteResult, safeSlice(Get(deleteResult.m, "errors")))
        map(q) ==
            IF q.k = "req" THEN q
            ELSE IF IsErr(q.err) THEN Returned(q.err, <<>>, q.used)
            ELSE result(q, safeMap(Get(q.val, "apiAccessDeleteKeys")))
    IN  IF Len(userKeyIDs) = 0 /\ Len(ingestKeyIDs) = 0
        THEN Returned(Errorf("no key IDs provided", <<>>), <<>>, 0)
        ELSE map(NerdGraphQuery("apiAccessDeleteKeys",
                     [userKeyIds |-> userKeyIDs, ingestKeyIds |-> ingestKeyIDs], reps))

-----------------------------------------------------------------------------
(* Account ID of the client *)

\* errors.New("account ID required - ...")
ErrAccountIDRequired == [type |-> "errorString", format |-> "account ID required", args |-> <<>>]

\* RequireAccountID: only the empty account ID is refused
RequireAccountID(accountID) == IF accountID = <<>> THEN ErrAccountIDRequired ELSE NoErr

\* The number the digits denote; the inputs of the model stay below 2^31
\* or have twenty digits and more
RECURSIVE DecimalValue(_)
DecimalValue(digits) ==
    IF digits = <<>> THEN 0
    ELSE 10 * DecimalValue(SubSeq(digits, 1, Len(digits) - 1)) + (digits[Len(digits)] - 48)

\* strconv.Atoi: an optional sign and digits; a number of twenty digits
\* and more is out of the range of a 64-bit int
Atoi(s) ==
    LET parse(sign, digits) ==
            IF digits = <<>> \/ \E i \in 1..Len(digits) : digits[i] \notin 48..57
            THEN [n |-> 0, ok |-> FALSE]
            ELSE IF Len(digits) >= 20 THEN [n |-> 0, ok |-> FALSE]
            ELSE [n |-> sign * DecimalValue(digits), ok |-> TRUE]
    IN  IF s # <<>> /\ s[1] = Ord("-") THEN parse(-1, Tail(s))
        ELSE IF s # <<>> /\ s[1] = Ord("+") THEN parse(1, Tail(s))
        ELSE parse(1, s)

\* GetAccountIDInt: (id, err)
GetAccountIDInt(accountID) ==
    LET convert(id) ==
            IF ~id.ok THEN [val |-> 0, err |-> Errorf("invalid account ID: %s", <<accountID>>)]
            ELSE [val |-> id.n, err |-> NoErr]
    IN  IF IsErr(RequireAccountID(accountID))
        THEN [val |-> 0, err |-> RequireAccountID(accountID)]
        ELSE convert(Atoi(accountID))

\* NewAccountID that takes every number that is not negative
NewAccountID_NonNegative(s) ==
    LET positive(num) ==
            IF ~num.ok THEN Errorf("invalid account ID %q: must be numeric", <<s>>)
            ELSE IF num.n < 0
            THEN Errorf("invalid account ID %q: must be a positive number", <<s>>)
            ELSE NoErr
    IN  IF s = <<>> THEN Errorf("account ID cannot be empty", <<>>)
        ELSE positive(Atoi(s))

\* AccountID.Int: the integer of the ID, 0 when it is none
AccountIDInt(a) == Atoi(a).n

\* NewAccountID: the error of the format rules of an account ID
NewAccountID(s) ==
    LET positive(num) ==
            IF ~num.ok THEN Errorf("invalid account ID %q: must be numeric", <<s>>)
            ELSE IF num.n <= 0
            THEN Errorf("invalid account ID %q: must be a positive number", <<s>>)
            ELSE NoErr
    IN  IF s = <<>> THEN Errorf("account ID cannot be empty", <<>>)
        ELSE positive(Atoi(s))

-----------------------------------------------------------------------------
(* Users *)

UsersPath == <<"actor", "organization", "userManagement", "authenticationDomains">>

\* The displayName of the groups of a user
GroupsOf(user) ==
    LET names(groupsList) ==
            IF ~groupsList.ok THEN <<>>
            ELSE [i \in 1..Len(SelectSeq(groupsList.s, LAMBDA g : g.t = "obj")) |->
                     safeString(Get(SelectSeq(groupsList.s, LAMBDA g : g.t = "obj")[i],
                                    "displayName"))]
    IN  names(safeSlice(Get(Get(user, "groups"), "groups")))

\* User without the name of the authentication domain
User_NoDomain(user, domainName, groups) ==
    [ID |-> safeString(Get(user, "id")),
     Name |-> safeString(Get(user, "name")),
     Email |-> safeString(Get(user, "email")),
     Type |-> safeString(Get(Get(user, "type"), "displayName")),
     Groups |-> groups,
     AuthenticationDomain |-> <<>>]

User(user, domainName, groups) ==
    [ID |-> safeString(Get(user, "id")),
     Name |-> safeString(Get(user, "name")),
     Email |-> safeString(Get(user, "email")),
     Type |-> safeString(Get(Get(user, "type"), "displayName")),
     Groups |-> groups,
     AuthenticationDomain |-> domainName]

\* The user objects of one authentication domain, each with the name of
\* the domain; none when the domain, its users object or its users list
\* has the wrong shape
UsersIn(d) ==
    LET collect(usersList) ==
            IF ~usersList.ok THEN <<>>
            ELSE [i \in 1..Len(SelectSeq(usersList.s, LAMBDA u : u.t = "obj")) |->
                     [user |-> SelectSeq(usersList.s, LAMBDA u : u.t = "obj")[i],
                      domainName |-> safeString(Get(d, "name"))]]
    IN  IF d.t # "obj" \/ Get(d, "users").t # "obj" THEN <<>>
        ELSE collect(safeSlice(Get(Get(d, "users"), "users")))

RECURSIVE UsersOf(_)
UsersOf(domains) ==
    IF domains = <<>> THEN <<>> ELSE UsersIn(Head(domains)) \o UsersOf(Tail(domains))

\* ListUsers: the users of all authentication domains, flattened
ListUsers(reps) ==
    LET records(found) ==
            [i \in 1..Len(found) |-> User(found[i].user, found[i].domainName, <<>>)]
        list(q, domains) ==
            IF ~domains.ok
            THEN Returned(ResponseError("unexpected response format: missing domains list"),
                          <<>>, q.used)
            ELSE Returned(NoErr, records(UsersOf(domains.s)), q.used)
        walked(q, authDomains) ==
            IF ~authDomains.ok THEN Returned(authDomains.err, <<>>, q.used)
            ELSE list(q, safeSlice(Get(authDomains.m, "authenticationDomains")))
        map(q) ==
            IF q.k = "req" THEN q
            ELSE IF IsErr(q.err) THEN Returned(q.err, <<>>, q.used)
            ELSE walked(q, WalkMaps(q.val, UsersPath,
                    <<ResponseError("unexpected response format: missing actor"),
                      ResponseError("unexpected response format: missing organization"),
                      ResponseError("unexpected response format: missing userManagement"),
                      ResponseError("unexpected response format: missing authenticationDomains")>>))
    IN  map(NerdGraphQuery("actor.organization.userManagement.authenticationDomains.authenticationDomains",
                           Null, reps))

\* GetUser: the first user with the ID, with its groups
GetUser(userID, reps) ==
    LET pick(q, matches) ==
            IF matches = <<>> THEN Returned(Errorf("user not found", <<>>), Null, q.used)
            ELSE Returned(NoErr,
                          User(matches[1].user, matches[1].domainName, GroupsOf(matches[1].user)),
                          q.used)
        list(q, domains) ==
            IF ~domains.ok
            THEN Returned(ResponseError("unexpected response format"), Null, q.used)
            ELSE pick(q, SelectSeq(UsersOf(domains.s), LAMBDA u : safeString(Get(u.user, "id")) = userID))
        walked(q, authDomains) ==
            IF ~authDomains.ok THEN Returned(authDomains.err, Null, q.used)
            ELSE list(q, safeSlice(Get(authDomains.m, "authenticationDomains")))
        map(q) ==
            IF q.k = "req" THEN q
            ELSE IF IsErr(q.err) THEN Returned(q.err, Null, q.used)
            ELSE walked(q, WalkMaps(q.val, UsersPath,
                    <<ResponseError("unexpected response format"),
                      ResponseError("unexpected response format"),
                      ResponseError("unexpected response format"),
                      ResponseError("unexpected response format")>>))
    IN  map(NerdGraphQuery("actor.organization.userManagement.authenticationDomains.authenticationDomains",
                           [groups |-> TRUE], reps))

-----------------------------------------------------------------------------
(* Log parsing rules *)

LogParsingRule(rule) ==
    [ID |-> safeString(Get(rule, "id")),
     Description |-> safeString(Get(rule, "description")),
     Enabled |-> Get(rule, "enabled") = Bool(TRUE),
     Grok |-> safeString(Get(rule, "grok")),
     Lucene |-> safeString(Get(rule, "lucene")),
     NRQL |-> safeString(Get(rule, "nrql")),
     UpdatedAt |-> safeString(Get(rule, "updatedAt"))]

\* LiveRules that keeps the rules marked deleted
LiveRules_KeepDeleted(rulesData) == SelectSeq(rulesData, LAMBDA r : r.t = "obj")

\* The elements of parsingRules that are objects and not marked deleted
LiveRules(rulesData) ==
    SelectSeq(rulesData, LAMBDA r : r.t = "obj" /\ Get(r, "deleted") # Bool(TRUE))

\* ListLogParsingRules
ListLogParsingRules(accountID, reps) ==
    LET rules(live) == [i \in 1..Len(live) |-> LogParsingRule(live[i])]
        list(q, rulesData) ==
            IF ~rulesData.ok
            THEN Returned(ResponseError("unexpected response format: missing parsingRules"),
                          <<>>, q.used)
            ELSE Returned(NoErr, rules(LiveRules(rulesData.s)), q.used)
        walked(q, logConfigs) ==
            IF ~logConfigs.ok THEN Returned(logConfigs.err, <<>>, q.used)
            ELSE list(q, safeSlice(Get(logConfigs.m, "parsingRules")))
        map(q) ==
            IF q.k = "req" THEN q
            ELSE IF IsErr(q.err) THEN Returned(q.err, <<>>, q.used)
            ELSE walked(q, WalkMaps(q.val, <<"actor", "account", "logConfigurations">>,
                    <<ResponseError("unexpected response format: missing actor"),
                      ResponseError("unexpected response format: missing account"),
                      ResponseError("unexpected response format: missing logConfigurations")>>))
    IN  IF IsErr(RequireAccountID(accountID))
        THEN Returned(RequireAccountID(accountID), <<>>, 0)
        ELSE map(NerdGraphQuery("actor.account.logConfigurations.parsingRules",
                                [accountId |-> GetAccountIDInt(accountID).val], reps))

\* The response of a rule mutation: the embedded errors first, then the rule
RuleMutationResult(q, key, failed) ==
    LET payload(rule) ==
            IF ~rule.ok
            THEN Returned(ResponseError("unexpected response format: missing rule"), Null, q.used)
            ELSE Returned(NoErr, LogParsingRule(rule.m), q.used)
        checked(result, errors) ==
            IF errors.ok /\ Len(errors.s) > 0
            THEN Returned(Errorf(failed, <<safeString(Get(errors.s[1], "message"))>>), Null, q.used)
            ELSE payload(safeMap(Get(result.m, "rule")))
        top(result) ==
            IF ~result.ok THEN Returned(ResponseError("unexpected response format"), Null, q.used)
            ELSE checked(result, safeSlice(Get(result.m, "errors")))
    IN  IF q.k = "req" THEN q
        ELSE IF IsErr(q.err) THEN Returned(q.err, Null, q.used)
        ELSE top(safeMap(Get(q.val, key)))

\* CreateLogParsingRule
CreateLogParsingRule(accountID, rule, reps) ==
    IF IsErr(RequireAccountID(accountID)) THEN Returned(RequireAccountID(accountID), Null, 0)
    ELSE RuleMutationResult(
             NerdGraphQuery("logConfigurationsCreateParsingRule",
                            [accountId |-> GetAccountIDInt(accountID).val, rule |-> rule], reps),
             "logConfigurationsCreateParsingRule", "failed to create rule: %s")

\* GetLogParsingRule that settles for the first listed rule when none has
\* the ID
GetLogParsingRule_FirstRule(accountID, ruleID, reps) ==
    LET pick(l, matches) ==
            IF matches = <<>> /\ l.val = <<>>
            THEN Returned(Errorf("rule not found: %s", <<ruleID>>), Null, l.used)
            ELSE IF matches = <<>> THEN Returned(NoErr, l.val[1], l.used)
            ELSE Returned(NoErr, matches[1], l.used)
        find(l) ==
            IF l.k = "req" THEN l
            ELSE IF IsErr(l.err) THEN Returned(l.err, Null, l.used)
            ELSE pick(l, SelectSeq(l.val, LAMBDA r : r.ID = ruleID))
    IN  find(ListLogParsingRules(accountID, reps))

\* GetLogParsingRule: the first listed rule with the ID
GetLogParsingRule(accountID, ruleID, reps) ==
    LET pick(l, matches) ==
            IF matches = <<>>
            THEN Returned(Errorf("rule not found: %s", <<ruleID>>), Null, l.used)
            ELSE Returned(NoErr, matches[1], l.used)
        find(l) ==
            IF l.k = "req" THEN l
            ELSE IF IsErr(l.err) THEN Returned(l.err, Null, l.used)
            ELSE pick(l, SelectSeq(l.val, LAMBDA r : r.ID = ruleID))
    IN  find(ListLogParsingRules(accountID, reps))

\* UpdateLogParsingRule that sends the update without fetching the rule
UpdateLogParsingRule_NoFetch(accountID, ruleID, update, reps) ==
    IF IsErr(RequireAccountID(accountID)) THEN Returned(RequireAccountID(accountID), Null, 0)
    ELSE RuleMutationResult(
             NerdGraphQuery("logConfigurationsUpdateParsingRule",
                            [accountId |-> GetAccountIDInt(accountID).val,
                             rule |-> [description |-> update.Description.v,
                                       enabled |-> update.Enabled.set /\ update.Enabled.v = TRUE,
                                       grok |-> update.Grok.v, lucene |-> update.Lucene.v,
                                       nrql |-> update.NRQL.v],
                             id |-> ruleID], reps),
             "logConfigurationsUpdateParsingRule", "failed to update rule: %s")

\* UpdateLogParsingRule that sends the fields that are set and the zero
\* value of the others
UpdateLogParsingRule_PatchOnly(accountID, ruleID, update, reps) ==
    LET merged(existing) ==
            [description |-> IF update.Description.set THEN update.Description.v ELSE <<>>,
             enabled |-> IF update.Enabled.set THEN update.Enabled.v ELSE FALSE,
             grok |-> IF update.Grok.set THEN update.Grok.v ELSE <<>>,
             lucene |-> IF update.Lucene.set THEN update.Lucene.v ELSE <<>>,
             nrql |-> IF update.NRQL.set THEN update.NRQL.v ELSE <<>>]
        sent(existing, m) ==
            IF m.k = "req" THEN m ELSE Returned(m.err, m.val, existing.used + m.used)
        fetched(existing) ==
            IF existing.k = "req" THEN existing
            ELSE IF IsErr(existing.err) THEN Returned(existing.err, Null, existing.used)
            ELSE sent(existing, RuleMutationResult(
                     NerdGraphQuery("logConfigurationsUpdateParsingRule",
                                    [accountId |-> GetAccountIDInt(accountID).val,
                                     rule |-> merged(existing.val), id |-> ruleID],
                                    SubSeq(reps, existing.used + 1, Len(reps))),
                     "logConfigurationsUpdateParsingRule", "failed to update rule: %s"))
    IN  IF IsErr(RequireAccountID(accountID)) THEN Returned(RequireAccountID(accountID), Null, 0)
        ELSE fetched(GetLogParsingRule(accountID, ruleID, reps))

\* UpdateLogParsingRule: fetch the rule, overlay the fields that are set,
\* send the whole rule
UpdateLogParsingRule(accountID, ruleID, update, reps) ==
    LET merged(existing) ==
            [description |-> IF update.Description.set THEN update.Description.v
                             ELSE existing.Description,
             enabled |-> IF update.Enabled.set THEN update.Enabled.v ELSE existing.Enabled,
             grok |-> IF update.Grok.set THEN update.Grok.v ELSE existing.Grok,
             lucene |-> IF update.Lucene.set THEN update.Lucene.v ELSE existing.Lucene,
             nrql |-> IF update.NRQL.set THEN update.NRQL.v ELSE existing.NRQL]
        sent(existing, m) ==
            IF m.k = "req" THEN m ELSE Returned(m.err, m.val, existing.used + m.used)
        fetched(existing) ==
            IF existing.k = "req" THEN existing
            ELSE IF IsErr(existing.err) THEN Returned(existing.err, Null, existing.used)
            ELSE sent(existing, RuleMutationResult(
                     NerdGraphQuery("logConfigurationsUpdateParsingRule",
                                    [accountId |-> GetAccountIDInt(accountID).val,
                                     rule |-> merged(existing.val), id |-> ruleID],
                                    SubSeq(reps, existing.used + 1, Len(reps))),
                     "logConfigurationsUpdateParsingRule", "failed to update rule: %s"))
    IN  IF IsErr(RequireAccountID(accountID)) THEN Returned(RequireAccountID(accountID), Null, 0)
        ELSE fetched(GetLogParsingRule(accountID, ruleID, reps))

\* DeleteLogParsingRule
DeleteLogParsingRule(accountID, ruleID, reps) ==
    LET checked(q, errors) ==
            IF errors.ok /\ Len(errors.s) > 0
            THEN Returned(Errorf("failed to delete rule: %s",
                                 <<safeString(Get(errors.s[1], "message"))>>), Null, q.used)
            ELSE Returned(NoErr, Null, q.used)
        top(q, deleteResult) ==
            IF ~deleteResult.ok
            THEN Returned(ResponseError("unexpected response format"), Null, q.used)
            ELSE checked(q, safeSlice(Get(deleteResult.m, "errors")))
        map(q) ==
            IF q.k = "req" THEN q
            ELSE IF IsErr(q.err) THEN Returned(q.err, Null, q.used)
            ELSE top(q, safeMap(Get(q.val, "logConfigurationsDeleteParsingRule")))
    IN  IF IsErr(RequireAccountID(accountID)) THEN Returned(RequireAccountID(accountID), Null, 0)
        ELSE map(NerdGraphQuery("logConfigurationsDeleteParsingRule",
                                [accountId |-> accountID, id |-> ruleID], reps))

-----------------------------------------------------------------------------
(* NRQL and alert policies *)

\* QueryNRQL: Results has one entry per element, nil for what is no object
QueryNRQL(accountID, nrql, reps) ==
    LET list(q, results) ==
            IF ~results.ok
            THEN Returned(ResponseError("unexpected response format: missing results"),
                          Null, q.used)
            ELSE Returned(NoErr,
                          [Results |-> [i \in 1..Len(results.s) |-> safeMap(results.s[i]).m]],
                          q.used)
        walked(q, nrqlResult) ==
            IF ~nrqlResult.ok THEN Returned(nrqlResult.err, Null, q.used)
            ELSE list(q, safeSlice(Get(nrqlResult.m, "results")))
        map(q) ==
            IF q.k = "req" THEN q
            ELSE IF IsErr(q.err) THEN Returned(q.err, Null, q.used)
            ELSE walked(q, WalkMaps(q.val, <<"actor", "account", "nrql">>,
                    <<ResponseError("unexpected response format: missing actor"),
                      ResponseError("unexpected response format: missing account"),
                      ResponseError("unexpected response format: missing nrql")>>))
    IN  IF IsErr(RequireAccountID(accountID)) THEN Returned(RequireAccountID(accountID), Null, 0)
        ELSE map(NerdGraphQuery("actor.account.nrql.results",
                                [accountId |-> GetAccountIDInt(accountID).val, nrql |-> nrql],
                                reps))

\* GetAlertPolicy
GetAlertPolicy(accountID, policyID, reps) ==
    LET found(q, policy) ==
            IF ~policy.ok THEN Returned(Errorf("policy not found", <<>>), Null, q.used)
            ELSE Returned(NoErr,
                          [ID |-> safeInt(Get(policy.m, "id")),
                           Name |-> safeString(Get(policy.m, "name")),
                           IncidentPreference |->
                               safeString(Get(policy.m, "incidentPreference"))],
                          q.used)
        walked(q, alerts) ==
            IF ~alerts.ok THEN Returned(alerts.err, Null, q.used)
            ELSE found(q, safeMap(Get(alerts.m, "policy")))
        map(q) ==
            IF q.k = "req" THEN q
            ELSE IF IsErr(q.err) THEN Returned(q.err, Null, q.used)
            ELSE walked(q, WalkMaps(q.val, <<"actor", "account", "alerts">>,
                    <<ResponseError("unexpected response format: missing actor"),
                      ResponseError("unexpected response format: missing account"),
                      ResponseError("unexpected response format: missing alerts")>>))
    IN  IF IsErr(RequireAccountID(accountID)) THEN Returned(RequireAccountID(accountID), Null, 0)
        ELSE map(NerdGraphQuery("actor.account.alerts.policy",
                                [accountId |-> GetAccountIDInt(accountID).val,
                                 policyId |-> policyID], reps))

-----------------------------------------------------------------------------
(* Dashboards *)

Dashboard(entity) ==
    [GUID |-> safeString(Get(entity, "guid")),
     Name |-> safeString(Get(entity, "name")),
     AccountID |-> safeInt(Get(entity, "accountId"))]

\* ListDashboards
ListDashboards(accountID, reps) ==
    LET dashboards(objects) == [i \in 1..Len(objects) |-> Dashboard(objects[i])]
        list(q, entities) ==
            IF ~entities.ok
            THEN Returned(ResponseError("unexpected response format: missing entities"),
                          <<>>, q.used)
            ELSE Returned(NoErr, dashboards(SelectSeq(entities.s, LAMBDA e : e.t = "obj")),
                          q.used)
        walked(q, results) ==
            IF ~results.ok THEN Returned(results.err, <<>>, q.used)
            ELSE list(q, safeSlice(Get(results.m, "entities")))
        map(q) ==
            IF q.k = "req" THEN q
            ELSE IF IsErr(q.err) THEN Returned(q.err, <<>>, q.used)
            ELSE walked(q, WalkMaps(q.val, <<"actor", "entitySearch", "results">>,
                    <<ResponseError("unexpected response format: missing actor"),
                      ResponseError("unexpected response format: missing entitySearch"),
                      ResponseError("unexpected response format: missing results")>>))
    IN  IF IsErr(RequireAccountID(accountID))
        THEN Returned(RequireAccountID(accountID), <<>>, 0)
        ELSE map(NerdGraphQuery("actor.entitySearch.results.entities",
                     [query |-> [format |-> "type = 'DASHBOARD' AND accountId = %s",
                                 args |-> <<accountID>>]], reps))

\* parseDashboardEntity: the pages and widgets that are objects
parseDashboardEntity(entity) ==
    LET widget(w) ==
            [ID |-> safeString(Get(w, "id")),
             Title |-> safeString(Get(w, "title")),
             Visualization |-> safeMap(Get(w, "visualization")).m,
             Configuration |-> safeMap(Get(w, "rawConfiguration")).m]
        widgets(objects) == [i \in 1..Len(objects) |-> widget(objects[i])]
        page(p) ==
            [GUID |-> safeString(Get(p, "guid")),
             Name |-> safeString(Get(p, "name")),
             Widgets |-> widgets(SelectSeq(safeSlice(Get(p, "widgets")).s,
                                           LAMBDA w : w.t = "obj"))]
        pages(objects) == [i \in 1..Len(objects) |-> page(objects[i])]
    IN  [GUID |-> safeString(Get(entity, "guid")),
         Name |-> safeString(Get(entity, "name")),
         Description |-> safeString(Get(entity, "description")),
         Permissions |-> safeString(Get(entity, "permissions")),
         Pages |-> pages(SelectSeq(safeSlice(Get(entity, "pages")).s, LAMBDA p : p.t = "obj"))]

\* GetDashboard
GetDashboard(guid, reps) ==
    LET found(q, entity) ==
            IF ~entity.ok THEN Returned(Errorf("dashboard not found", <<>>), Null, q.used)
            ELSE Returned(NoErr, parseDashboardEntity(entity.m), q.used)
        walked(q, actor) ==
            IF ~actor.ok THEN Returned(actor.err, Null, q.used)
            ELSE found(q, safeMap(Get(actor.m, "entity")))
        map(q) ==
            IF q.k = "req" THEN q
            ELSE IF IsErr(q.err) THEN Returned(q.err, Null, q.used)
            ELSE walked(q, WalkMaps(q.val, <<"actor">>,
                    <<ResponseError("unexpected response format: missing actor")>>))
    IN  map(NerdGraphQuery("actor.entity", [guid |-> guid], reps))

SUCCESS == B(<<"S", "U", "C", "C", "E", "S", "S">>)
PUBLIC_READ_WRITE ==
    B(<<"P", "U", "B", "L", "I", "C", "_", "R", "E", "A", "D", "_", "W", "R", "I", "T", "E">>)

\* The dashboard variable built from a DashboardInput
dashboardMap(input) ==
    LET permissions ==
            IF input.Permissions = <<>> THEN PUBLIC_READ_WRITE ELSE input.Permissions
    IN  IF input.Description # <<>>
        THEN [name |-> input.Name, permissions |-> permissions, pages |-> input.Pages,
              description |-> input.Description]
        ELSE [name |-> input.Name, permissions |-> permissions, pages |-> input.Pages]

\* The response of dashboardCreate and dashboardUpdate: the first embedded
\* error when it is an object, else the entity result
DashboardMutationResult(q, key, missing, failed) ==
    LET payload(entityResult) ==
            IF ~entityResult.ok
            THEN Returned(ResponseError("unexpected response format: missing entityResult"),
                          Null, q.used)
            ELSE Returned(NoErr, parseDashboardEntity(entityResult.m), q.used)
        checked(result, errors) ==
            IF errors.ok /\ Len(errors.s) > 0 /\ safeMap(errors.s[1]).ok
            THEN Returned(Errorf(failed, <<safeString(Get(errors.s[1], "description"))>>),
                          Null, q.used)
            ELSE payload(safeMap(Get(result.m, "entityResult")))
        top(result) ==
            IF ~result.ok THEN Returned(ResponseError(missing), Null, q.used)
            ELSE checked(result, safeSlice(Get(result.m, "errors")))
    IN  IF q.k = "req" THEN q
        ELSE IF IsErr(q.err) THEN Returned(q.err, Null, q.used)
        ELSE top(safeMap(Get(q.val, key)))

\* CreateDashboard
CreateDashboard(accountID, input, reps) ==
    IF IsErr(RequireAccountID(accountID)) THEN Returned(RequireAccountID(accountID), Null, 0)
    ELSE DashboardMutationResult(
             NerdGraphQuery("dashboardCreate",
                            [accountId |-> Atoi(accountID).n, dashboard |-> dashboardMap(input)],
                            reps),
             "dashboardCreate", "unexpected response format: missing dashboardCreate",
             "failed to create dashboard: %s")

\* UpdateDashboard
UpdateDashboard(guid, input, reps) ==
    DashboardMutationResult(
        NerdGraphQuery("dashboardUpdate", [guid |-> guid, dashboard |-> dashboardMap(input)],
                       reps),
        "dashboardUpdate", "unexpected response format: missing dashboardUpdate",
        "failed to update dashboard: %s")

\* DeleteDashboard: the embedded errors are read only when the status is
\* not SUCCESS
DeleteDashboard(guid, reps) ==
    LET failed(q, status, errors) ==
            IF errors.ok /\ Len(errors.s) > 0 /\ safeMap(errors.s[1]).ok
            THEN Returned(Errorf("failed to delete dashboard: %s",
                                 <<safeString(Get(errors.s[1], "description"))>>), Null, q.used)
            ELSE Returned(Errorf("failed to delete dashboard: status %s", <<status>>),
                          Null, q.used)
        top(q, dashboardDelete) ==
            IF ~dashboardDelete.ok
            THEN Returned(ResponseError("unexpected response format: missing dashboardDelete"),
                          Null, q.used)
            ELSE IF safeString(Get(dashboardDelete.m, "status")) # SUCCESS
            THEN failed(q, safeString(Get(dashboardDelete.m, "status")),
                        safeSlice(Get(dashboardDelete.m, "errors")))
            ELSE Returned(NoErr, Null, q.used)
        map(q) ==
            IF q.k = "req" THEN q
            ELSE IF IsErr(q.err) THEN Returned(q.err, Null, q.used)
            ELSE top(q, safeMap(Get(q.val, "dashboardDelete")))
    IN  map(NerdGraphQuery("dashboardDelete", [guid |-> guid], reps))

-----------------------------------------------------------------------------
(* Connection test *)

\* fmt.Sprintf(format, args...)
Sprintf(format, args) == [format |-> format, args |-> args]

\* TestConnection: a failed query is recorded in the result, and the error
\* returned is nil
TestConnection(accountID, reps) ==
    LET result ==
            [APIKeyValid |-> FALSE, AccountAccess |-> FALSE, AccountID |-> 0,
             AccountName |-> <<>>, UserID |-> <<>>, UserEmail |-> <<>>,
             Error |-> NoErr, ErrorMessage |-> Sprintf("", <<>>)]
        withUser(data) ==
            [result EXCEPT !.APIKeyValid = TRUE,
                           !.UserID = safeString(Get(Get(Get(data, "actor"), "user"), "id")),
                           !.UserEmail = safeString(Get(Get(Get(data, "actor"), "user"), "email"))]
        withAccount(res, account) ==
            IF ~account.ok THEN res
            ELSE [res EXCEPT !.AccountAccess = TRUE,
                             !.AccountID = safeInt(Get(account.m, "id")),
                             !.AccountName = safeString(Get(account.m, "name"))]
        second(q, res, a) ==
            IF a.k = "req" THEN a
            ELSE IF IsErr(a.err)
            THEN Returned(NoErr,
                          [res EXCEPT !.ErrorMessage = Sprintf("Account access failed: %v", <<a.err>>)],
                          q.used + a.used)
            ELSE Returned(NoErr, withAccount(res, safeMap(Get(Get(a.val, "actor"), "account"))),
                          q.used + a.used)
        first(q) ==
            IF q.k = "req" THEN q
            ELSE IF IsErr(q.err)
            THEN Returned(NoErr,
                          [result EXCEPT !.Error = q.err,
                                         !.ErrorMessage =
                                             Sprintf("API key validation failed: %v", <<q.err>>)],
                          q.used)
            ELSE IF accountID = <<>> THEN Returned(NoErr, withUser(q.val), q.used)
            ELSE second(q, withUser(q.val),
                        NerdGraphQuery("actor.account", [accountId |-> GetAccountIDInt(accountID).val],
                                       SubSeq(reps, q.used + 1, Len(reps))))
    IN  first(NerdGraphQuery("actor.user", Null, reps))

-----------------------------------------------------------------------------
(* REST operations: one request, then json.Unmarshal into the response     *)
(* type.  The elements of a list and the fields of an object are kept as   *)
(* they arrive.                                                            *)

\* json.Unmarshal into a struct whose field key has the given kind; with
\* the key "" the body itself is the struct.  null and an absent key leave
\* the zero value; a value of another kind is an error.
Unmarshal(body, key, kind, zero) ==
    LET field(v) ==
            IF v = Null THEN [ok |-> TRUE, v |-> zero]
            ELSE IF v.t # kind THEN [ok |-> FALSE, v |-> zero]
            ELSE IF kind = "list" /\ \E i \in 1..Len(v.l) : v.l[i].t \notin {"obj", "null"}
            THEN [ok |-> FALSE, v |-> zero]
            ELSE [ok |-> TRUE, v |-> IF kind = "list" THEN v.l ELSE v]
    IN  IF ~body.json THEN [ok |-> FALSE, v |-> zero]
        ELSE IF body.data = Null THEN [ok |-> TRUE, v |-> zero]
        ELSE IF body.data.t # "obj" THEN [ok |-> FALSE, v |-> zero]
        ELSE IF key = "" THEN [ok |-> TRUE, v |-> body.data]
        ELSE field(Get(body.data, key))

\* The result of a REST operation from the outcome d of its request
Decoded(d, key, kind, zero, nil) ==
    LET parsed(u) ==
            IF ~u.ok THEN Returned(ResponseError("failed to parse response"), nil, d.used)
            ELSE Returned(NoErr, u.v, d.used)
    IN  IF d.k = "req" THEN d
        ELSE IF IsErr(d.err) THEN Returned(d.err, nil, d.used)
        ELSE parsed(Unmarshal(d.val, key, kind, zero))

URL(format, args) == [format |-> format, args |-> args]

ListApplications(reps) ==
    Decoded(doRequest("GET", URL("BaseURL/applications.json", <<>>), Null, reps),
            "applications", "list", <<>>, <<>>)

GetApplication(appID, reps) ==
    Decoded(doRequest("GET", URL("BaseURL/applications/%s.json", <<appID>>), Null, reps),
            "application", "obj", Obj(<<>>), Null)

ListApplicationMetrics(appID, reps) ==
    Decoded(doRequest("GET", URL("BaseURL/applications/%s/metrics.json", <<appID>>), Null, reps),
            "metrics", "list", <<>>, <<>>)

ListAlertPolicies(reps) ==
    Decoded(doRequest("GET", URL("BaseURL/alerts_policies.json", <<>>), Null, reps),
            "policies", "list", <<>>, <<>>)

ListDeployments(appID, reps) ==
    Decoded(doRequest("GET", URL("BaseURL/applications/%s/deployments.json", <<appID>>),
                      Null, reps),
            "deployments", "list", <<>>, <<>>)

\* CreateDeployment: the optional fields are sent when they are not empty
CreateDeployment(appID, revision, description, user, changelog, reps) ==
    Decoded(doRequest("POST", URL("BaseURL/applications/%s/deployments.json", <<appID>>),
                      [deployment |->
                          [k \in {"revision"}
                                 \cup (IF description # <<>> THEN {"description"} ELSE {})
                                 \cup (IF user # <<>> THEN {"user"} ELSE {})
                                 \cup (IF changelog # <<>> THEN {"changelog"} ELSE {}) |->
                              CASE k = "revision" -> revision
                                [] k = "description" -> description
                                [] k = "user" -> user
                                [] k = "changelog" -> changelog]],
                      reps),
            "deployment", "obj", Obj(<<>>), Null)

ListSyntheticMonitors(reps) ==
    Decoded(doRequest("GET", URL("SyntheticsURL/monitors.json", <<>>), Null, reps),
            "monitors", "list", <<>>, <<>>)

GetSyntheticMonitor(monitorID, reps) ==
    Decoded(doRequest("GET", URL("SyntheticsURL/monitors/%s", <<monitorID>>), Null, reps),
            "", "obj", Obj(<<>>), Null)

\* The body of a monitor: uri and locations are sent when they are not empty
MonitorBody(input, keys) ==
    [k \in keys \cup (IF input.URI # <<>> THEN {"uri"} ELSE {})
                \cup (IF Len(input.Locations) > 0 THEN {"locations"} ELSE {}) |->
        CASE k = "name" -> input.Name
          [] k = "type" -> input.Type
          [] k = "frequency" -> input.Frequency
          [] k = "status" -> input.Status
          [] k = "uri" -> input.URI
          [] k = "locations" -> input.Locations]

CreateSyntheticMonitor(input, reps) ==
    Decoded(doRequest("POST", URL("SyntheticsURL/monitors", <<>>),
                      MonitorBody(input, {"name", "type", "frequency", "status"}), reps),
            "", "obj", Obj(<<>>), Null)

UpdateSyntheticMonitor(monitorID, input, reps) ==
    Decoded(doRequest("PUT", URL("SyntheticsURL/monitors/%s", <<monitorID>>),
                      MonitorBody(input, {"name", "frequency", "status"}), reps),
            "", "obj", Obj(<<>>), Null)

\* DeleteSyntheticMonitor: the error of the request, the body is not read
DeleteSyntheticMonitor(monitorID, reps) ==
    LET done(d) == IF d.k = "req" THEN d ELSE Returned(d.err, Null, d.used)
    IN  done(doRequest("DELETE", URL("SyntheticsURL/monitors/%s", <<monitorID>>), Null, reps))

-----------------------------------------------------------------------------
(* Times.  An instant is the day since 0001-01-01 UTC, the second of that  *)
(* day and the nanosecond; the location of a time.Time is not kept.        *)

Time(day, sec, nsec) == [day |-> day, sec |-> sec, nsec |-> nsec]

\* time.Time{}
ZeroTime == Time(0, 0, 0)

IsZero(t) == t.day = 0 /\ t.sec = 0 /\ t.nsec = 0

Before(t, u) ==
    \/ t.day < u.day
    \/ t.day = u.day /\ t.sec < u.sec
    \/ t.day = u.day /\ t.sec = u.sec /\ t.nsec < u.nsec

After(t, u) == Before(u, t)

isLeap(year) == year % 4 = 0 /\ (year % 100 # 0 \/ year % 400 = 0)

daysIn(month, year) ==
    IF month = 2 THEN (IF isLeap(year) THEN 29 ELSE 28)
    ELSE IF month \in {4, 6, 9, 11} THEN 30 ELSE 31

\* The days of the year before the month
RECURSIVE daysBefore(_, _)
daysBefore(month, year) ==
    IF month = 1 THEN 0 ELSE daysBefore(month - 1, year) + daysIn(month - 1, year)

\* time.Date for a year of 1 or later, in the zone offset seconds east of
\* UTC: a month outside 1..12 and a day outside the month carry over
Date(year, month, day, hour, min, sec, nsec, offset) ==
    LET at(days, secs) == Time(days + secs \div 86400 - 2, secs % 86400, nsec)
        in(y, m) ==
            at(365 * (y - 1) + (y - 1) \div 4 - (y - 1) \div 100 + (y - 1) \div 400
                   + daysBefore(m, y) + day - 1,
               hour * 3600 + min * 60 + sec - offset + 2 * 86400)
    IN  in(year + ((month - 1 + 1200) \div 12) - 100, ((month - 1 + 1200) % 12) + 1)

\* A chunk of a layout: a reference element or literal text
Std(std) == [std |-> std, text |-> <<>>]
Lit(chars) == [std |-> "lit", text |-> B(chars)]

DateChunks == <<Std("2006"), Lit(<<"-">>), Std("01"), Lit(<<"-">>), Std("02")>>
ClockChunks == <<Std("15"), Lit(<<":">>), Std("04"), Lit(<<":">>), Std("05")>>

\* Common time formats to try when parsing timestamps
timeFormats ==
    <<DateChunks \o <<Lit(<<"T">>)>> \o ClockChunks \o <<Std("Z07:00")>>,
      DateChunks \o <<Lit(<<"T">>)>> \o ClockChunks \o <<Std(".999999999"), Std("Z07:00")>>,
      DateChunks \o <<Lit(<<"T">>)>> \o ClockChunks \o <<Lit(<<"Z">>)>>,
      DateChunks \o <<Lit(<<"T">>)>> \o ClockChunks,
      DateChunks \o <<Lit(<<" ">>)>> \o ClockChunks,
      DateChunks,
      <<Std("01"), Lit(<<"/">>), Std("02"), Lit(<<"/">>), Std("2006")>>,
      <<Std("Jan"), Lit(<<" ">>), Std("2"), Lit(<<",", " ">>), Std("2006")>>>>

shortMonthNames ==
    <<B(<<"J", "a", "n">>), B(<<"F", "e", "b">>), B(<<"M", "a", "r">>), B(<<"A", "p", "r">>),
      B(<<"M", "a", "y">>), B(<<"J", "u", "n">>), B(<<"J", "u", "l">>), B(<<"A", "u", "g">>),
      B(<<"S", "e", "p">>), B(<<"O", "c", "t">>), B(<<"N", "o", "v">>), B(<<"D", "e", "c">>)>>

isDigit(s, i) == Len(s) > i /\ s[i + 1] \in 48..57

\* getnum: one or two digits, two when fixed
getnum(s, fixed) ==
    IF ~isDigit(s, 0) THEN [ok |-> FALSE, n |-> 0, rest |-> s]
    ELSE IF ~isDigit(s, 1)
    THEN (IF fixed THEN [ok |-> FALSE, n |-> 0, rest |-> s]
          ELSE [ok |-> TRUE, n |-> s[1] - 48, rest |-> Tail(s)])
    ELSE [ok |-> TRUE, n |-> (s[1] - 48) * 10 + (s[2] - 48), rest |-> SubSeq(s, 3, Len(s))]

\* The ASCII letter in lower case
lowerByte(c) == IF c \in 65..90 THEN c + 32 ELSE c

\* match: equal up to the case of ASCII letters
match(s1, s2) ==
    Len(s1) = Len(s2) /\ \A i \in 1..Len(s1) : lowerByte(s1[i]) = lowerByte(s2[i])

\* The number of digits at the head of s
RECURSIVE leadingDigits(_)
leadingDigits(s) ==
    IF s # <<>> /\ s[1] \in 48..57 THEN 1 + leadingDigits(Tail(s)) ELSE 0

RECURSIVE pow10(_)
pow10(n) == IF n = 0 THEN 1 ELSE 10 * pow10(n - 1)

\* parseNanoseconds: the digits after the separator, at most nine of them
parseNanoseconds(value, nbytes) ==
    LET scaled(digits) == DecimalValue(digits) * pow10(9 - Len(digits))
    IN  scaled(SubSeq(value, 2, IF nbytes > 10 THEN 10 ELSE nbytes))

\* A fractional second in the value: a period or comma and digits
fraction(st) ==
    LET take(n) == [st EXCEPT !.nsec = parseNanoseconds(st.value, n),
                              !.value = SubSeq(st.value, n + 1, Len(st.value))]
    IN  IF Len(st.value) >= 2 /\ st.value[1] \in {44, 46} /\ isDigit(st.value, 1)
        THEN take(1 + leadingDigits(Tail(st.value)))
        ELSE st

\* The zone of the value: Z, or a sign, two digits, a colon and two digits
zone(st) ==
    LET signed(hr, mm, rest) ==
            IF ~hr.ok \/ ~mm.ok \/ hr.n > 24 \/ mm.n > 60 \/ st.value[1] \notin {43, 45}
            THEN [st EXCEPT !.ok = FALSE]
            ELSE [st EXCEPT !.offset = (IF st.value[1] = 45 THEN -1 ELSE 1)
                                       * (hr.n * 60 + mm.n) * 60,
                            !.value = rest]
    IN  IF Len(st.value) >= 1 /\ st.value[1] = 90
        THEN [st EXCEPT !.value = Tail(st.value)]
        ELSE IF Len(st.value) < 6 \/ st.value[4] # 58 THEN [st EXCEPT !.ok = FALSE]
        ELSE signed(getnum(SubSeq(st.value, 2, 3), TRUE), getnum(SubSeq(st.value, 5, 6), TRUE),
                    SubSeq(st.value, 7, Len(st.value)))

\* One chunk of the layout consumed from the value
chunk(c, fracNext, st) ==
    LET bad == [st EXCEPT !.ok = FALSE]
        year(digits) ==
            IF Len(digits) < 4 \/ leadingDigits(digits) < 4 THEN bad
            ELSE [st EXCEPT !.year = DecimalValue(digits),
                            !.value = SubSeq(st.value, 5, Len(st.value))]
        month(n) ==
            IF ~n.ok \/ n.n <= 0 \/ 12 < n.n THEN bad
            ELSE [st EXCEPT !.month = n.n, !.value = n.rest]
        named(hits) ==
            IF hits = {} THEN bad
            ELSE [st EXCEPT !.month = CHOOSE i \in hits : \A j \in hits : i <= j,
                            !.value = SubSeq(st.value, 4, Len(st.value))]
        day(n) == IF ~n.ok THEN bad ELSE [st EXCEPT !.day = n.n, !.value = n.rest]
        hour(n) ==
            IF ~n.ok \/ 24 <= n.n THEN bad ELSE [st EXCEPT !.hour = n.n, !.value = n.rest]
        min(n) ==
            IF ~n.ok \/ 60 <= n.n THEN bad ELSE [st EXCEPT !.min = n.n, !.value = n.rest]
        sec(n) ==
            IF ~n.ok \/ 60 <= n.n THEN bad
            ELSE IF fracNext THEN [st EXCEPT !.sec = n.n, !.value = n.rest]
            ELSE fraction([st EXCEPT !.sec = n.n, !.value = n.rest])
    IN  CASE c.std = "lit" ->
                IF Len(st.value) >= Len(c.text) /\ SubSeq(st.value, 1, Len(c.text)) = c.text
                THEN [st EXCEPT !.value = SubSeq(st.value, Len(c.text) + 1, Len(st.value))]
                ELSE bad
          [] c.std = "2006" -> year(SubSeq(st.value, 1, IF Len(st.value) < 4 THEN Len(st.value) ELSE 4))
          [] c.std = "01" -> month(getnum(st.value, TRUE))
          [] c.std = "Jan" ->
                named({i \in 1..12 : Len(st.value) >= 3
                                     /\ match(SubSeq(st.value, 1, 3), shortMonthNames[i])})
          [] c.std = "02" -> day(getnum(st.value, TRUE))
          [] c.std = "2" -> day(getnum(st.value, FALSE))
          [] c.std = "15" -> hour(getnum(st.value, FALSE))
          [] c.std = "04" -> min(getnum(st.value, TRUE))
          [] c.std = "05" -> sec(getnum(st.value, TRUE))
          [] c.std = ".999999999" -> fraction(st)
          [] c.std = "Z07:00" -> zone(st)

RECURSIVE parseChunks(_, _)
parseChunks(layout, st) ==
    IF ~st.ok \/ layout = <<>> THEN st
    ELSE parseChunks(Tail(layout),
                     chunk(Head(layout),
                           Len(layout) > 1 /\ layout[2].std = ".999999999", st))

\* time.Parse(layout, value): every chunk matches, no text is left and the
\* day exists in the month
Parse(layout, value) ==
    LET result(st) ==
            IF ~st.ok \/ st.value # <<>> \/ st.day < 1 \/ st.day > daysIn(st.month, st.year)
            THEN [ok |-> FALSE, t |-> ZeroTime]
            ELSE [ok |-> TRUE,
                  t |-> Date(st.year, st.month, st.day, st.hour, st.min, st.sec, st.nsec,
                             st.offset)]
    IN  result(parseChunks(layout,
                           [ok |-> TRUE, value |-> value, year |-> 1, month |-> 1, day |-> 1,
                            hour |-> 0, min |-> 0, sec |-> 0, nsec |-> 0, offset |-> 0]))

\* The time of the first of the formats, from i on, that parses s
RECURSIVE firstFormat(_, _)
firstFormat(s, i) ==
    LET try(p) == IF p.ok THEN p ELSE firstFormat(s, i + 1)
    IN  IF i > Len(timeFormats) THEN [ok |-> FALSE, t |-> ZeroTime]
        ELSE try(Parse(timeFormats[i], s))

\* ParseDeploymentTimestamp
ParseDeploymentTimestamp(s) ==
    LET result(p) ==
            IF p.ok THEN [t |-> p.t, err |-> NoErr]
            ELSE [t |-> ZeroTime, err |-> Errorf("unable to parse deployment timestamp: %s", <<s>>)]
    IN  result(firstFormat(s, 1))

\* FilterDeploymentsByTime that drops what it cannot parse
FilterDeploymentsByTime_FailClosed(deployments, since, until) ==
    LET keep(ts) ==
            /\ ~IsErr(ts.err)
            /\ ~(~IsZero(since) /\ Before(ts.t, since))
            /\ ~(~IsZero(until) /\ After(ts.t, until))
    IN  IF IsZero(since) /\ IsZero(until) THEN deployments
        ELSE SelectSeq(deployments, LAMBDA d : keep(ParseDeploymentTimestamp(d.Timestamp)))

\* FilterDeploymentsByTime that drops what lies on a bound
FilterDeploymentsByTime_Exclusive(deployments, since, until) ==
    LET keep(ts) ==
            \/ IsErr(ts.err)
            \/ /\ ~(~IsZero(since) /\ ~After(ts.t, since))
               /\ ~(~IsZero(until) /\ ~Before(ts.t, until))
    IN  IF IsZero(since) /\ IsZero(until) THEN deployments
        ELSE SelectSeq(deployments, LAMBDA d : keep(ParseDeploymentTimestamp(d.Timestamp)))

\* FilterDeploymentsByTime: with a bound set, the deployments whose
\* timestamp does not parse or lies within the bounds
FilterDeploymentsByTime(deployments, since, until) ==
    LET keep(ts) ==
            \/ IsErr(ts.err)
            \/ /\ ~(~IsZero(since) /\ Before(ts.t, since))
               /\ ~(~IsZero(until) /\ After(ts.t, until))
    IN  IF IsZero(since) /\ IsZero(until) THEN deployments
        ELSE SelectSeq(deployments, LAMBDA d : keep(ParseDeploymentTimestamp(d.Timestamp)))

-----------------------------------------------------------------------------
(* The flexible time parser.  The clock and the zone of the process are    *)
(* its inputs: now is the instant time.Now() returns and offset the        *)
(* seconds east of UTC of time.Local at that instant.                      *)

\* unicode.IsSpace on the bytes of ASCII
asciiSpace == {9, 10, 11, 12, 13, 32}

\* strings.TrimSpace
TrimSpace(s) ==
    LET solid == {i \in 1..Len(s) : s[i] \notin asciiSpace}
    IN  IF solid = {} THEN <<>>
        ELSE SubSeq(s, CHOOSE i \in solid : \A j \in solid : i <= j,
                       CHOOSE i \in solid : \A j \in solid : j <= i)

\* strings.ToLower on ASCII
ToLower(s) == [i \in 1..Len(s) |-> lowerByte(s[i])]

\* The year, month and day of the day number n (days since 0001-01-01)
civil(n) ==
    LET capped(q) == IF q = 4 THEN 3 ELSE q
        month(year, yday) ==
            CHOOSE m \in 1..12 :
                daysBefore(m, year) <= yday /\ yday < daysBefore(m, year) + daysIn(m, year)
        date(year, yday) ==
            [year |-> year, month |-> month(year, yday),
             day |-> yday - daysBefore(month(year, yday), year) + 1]
        years(y400, n400) ==
            LET c == capped(n400 \div 36524)
                n100 == n400 - 36524 * c
                q == n100 \div 1461
                n4 == n100 - 1461 * q
                a == capped(n4 \div 365)
            IN  date(400 * y400 + 100 * c + 4 * q + a + 1, n4 - 365 * a)
    IN  years(n \div 146097, n % 146097)

\* The wall clock of the instant t in the zone: the day number and the
\* second of the day there
wall(t, offset) ==
    [day |-> t.day + (t.sec + offset + 86400) \div 86400 - 1,
     sec |-> (t.sec + offset + 86400) % 86400]

\* t.Add(d) for a duration of whole seconds
Add(t, seconds) ==
    LET days == (t.sec + seconds) \div 86400
    IN  Time(t.day + days, t.sec + seconds - 86400 * days, t.nsec)

\* t.AddDate(years, months, days) in the zone
AddDate(t, years, months, days, offset) ==
    LET on(d, w) ==
            Date(d.year + years, d.month + months, d.day + days,
                 w.sec \div 3600, (w.sec % 3600) \div 60, w.sec % 60, t.nsec, offset)
    IN  on(civil(wall(t, offset).day), wall(t, offset))

\* The midnight that starts the day of t in the zone
midnight(t, offset) ==
    LET on(d) == Date(d.year, d.month, d.day, 0, 0, 0, 0, offset)
    IN  on(civil(wall(t, offset).day))

timeUnits ==
    <<B(<<"s", "e", "c", "o", "n", "d">>), B(<<"m", "i", "n", "u", "t", "e">>), B(<<"h", "o", "u", "r">>), B(<<"d", "a", "y">>),
      B(<<"w", "e", "e", "k">>), B(<<"m", "o", "n", "t", "h">>), B(<<"y", "e", "a", "r">>)>>

\* The number of bytes of \s at the head of s
RECURSIVE leadingSpaces(_)
leadingSpaces(s) ==
    IF s # <<>> /\ s[1] \in {9, 10, 12, 13, 32} THEN 1 + leadingSpaces(Tail(s)) ELSE 0

hasPrefix(s, prefix) == Len(s) >= Len(prefix) /\ SubSeq(s, 1, Len(prefix)) = prefix

drop(s, n) == SubSeq(s, n + 1, Len(s))

\* relativeTimePattern.FindStringSubmatch:
\* ^(\d+)\s+(second|minute|hour|day|week|month|year)s?\s+ago$
relativeTimePattern(s) ==
    LET none == [ok |-> FALSE, amount |-> <<>>, unit |-> <<>>]
        ago(amount, unit, rest) ==
            IF leadingSpaces(rest) = 0 \/ drop(rest, leadingSpaces(rest)) # B(<<"a", "g", "o">>)
            THEN none
            ELSE [ok |-> TRUE, amount |-> amount, unit |-> unit]
        plural(amount, unit, rest) ==
            IF hasPrefix(rest, B(<<"s">>)) THEN ago(amount, unit, Tail(rest))
            ELSE ago(amount, unit, rest)
        unit(amount, rest, hits) ==
            IF hits = {} THEN none
            ELSE LET u == timeUnits[CHOOSE i \in hits : TRUE]
                 IN  plural(amount, u, drop(rest, Len(u)))
        units(amount, rest) ==
            unit(amount, rest, {i \in 1..Len(timeUnits) : hasPrefix(rest, timeUnits[i])})
        spaces(amount, rest) ==
            IF leadingSpaces(rest) = 0 THEN none
            ELSE units(amount, drop(rest, leadingSpaces(rest)))
    IN  IF leadingDigits(s) = 0 THEN none
        ELSE spaces(SubSeq(s, 1, leadingDigits(s)), drop(s, leadingDigits(s)))

\* parseRelativeTime, for amounts whose duration fits in 63 bits
parseRelativeTime(now, amount, unit, offset) ==
    CASE unit = B(<<"s", "e", "c", "o", "n", "d">>) -> [t |-> Add(now, -amount), err |-> NoErr]
      [] unit = B(<<"m", "i", "n", "u", "t", "e">>) -> [t |-> Add(now, -amount * 60), err |-> NoErr]
      [] unit = B(<<"h", "o", "u", "r">>) -> [t |-> Add(now, -amount * 3600), err |-> NoErr]
      [] unit = B(<<"d", "a", "y">>) -> [t |-> AddDate(now, 0, 0, -amount, offset), err |-> NoErr]
      [] unit = B(<<"w", "e", "e", "k">>) -> [t |-> AddDate(now, 0, 0, -amount * 7, offset), err |-> NoErr]
      [] unit = B(<<"m", "o", "n", "t", "h">>) -> [t |-> AddDate(now, 0, -amount, 0, offset), err |-> NoErr]
      [] unit = B(<<"y", "e", "a", "r">>) -> [t |-> AddDate(now, -amount, 0, 0, offset), err |-> NoErr]
      [] OTHER -> [t |-> ZeroTime, err |-> Errorf("unknown time unit: %s", <<unit>>)]

\* ParseFlexibleTime that tests for the empty string before it trims
ParseFlexibleTime_NoTrim(s, now, offset) ==
    LET original == TrimSpace(s)
        lower == ToLower(original)
        formats(p) ==
            IF p.ok THEN [t |-> p.t, err |-> NoErr]
            ELSE [t |-> ZeroTime, err |-> Errorf("unable to parse time: %s", <<original>>)]
        relative(m) ==
            IF m.ok THEN parseRelativeTime(now, DecimalValue(m.amount), m.unit, offset)
            ELSE formats(firstFormat(original, 1))
    IN  IF s = <<>> THEN [t |-> ZeroTime, err |-> Errorf("empty time string", <<>>)]
        ELSE IF lower = B(<<"n", "o", "w">>) THEN [t |-> now, err |-> NoErr]
        ELSE IF lower = B(<<"t", "o", "d", "a", "y">>) THEN [t |-> midnight(now, offset), err |-> NoErr]
        ELSE IF lower = B(<<"y", "e", "s", "t", "e", "r", "d", "a", "y">>)
        THEN [t |-> midnight(AddDate(now, 0, 0, -1, offset), offset), err |-> NoErr]
        ELSE relative(relativeTimePattern(lower))

\* ParseFlexibleTime: the keywords, then a relative expression, then the
\* fixed formats on the trimmed input
ParseFlexibleTime(s, now, offset) ==
    LET original == TrimSpace(s)
        lower == ToLower(original)
        formats(p) ==
            IF p.ok THEN [t |-> p.t, err |-> NoErr]
            ELSE [t |-> ZeroTime, err |-> Errorf("unable to parse time: %s", <<original>>)]
        relative(m) ==
            IF m.ok THEN parseRelativeTime(now, DecimalValue(m.amount), m.unit, offset)
            ELSE formats(firstFormat(original, 1))
    IN  IF original = <<>> THEN [t |-> ZeroTime, err |-> Errorf("empty time string", <<>>)]
        ELSE IF lower = B(<<"n", "o", "w">>) THEN [t |-> now, err |-> NoErr]
        ELSE IF lower = B(<<"t", "o", "d", "a", "y">>) THEN [t |-> midnight(now, offset), err |-> NoErr]
        ELSE IF lower = B(<<"y", "e", "s", "t", "e", "r", "d", "a", "y">>)
        THEN [t |-> midnight(AddDate(now, 0, 0, -1, offset), offset), err |-> NoErr]
        ELSE relative(relativeTimePattern(lower))

-----------------------------------------------------------------------------
(* Commands.  A command is an operator of its flags and arguments, of the  *)
(* clock, and of the replies delivered so far, like the operations of the  *)
(* client it calls; its value is what it hands to the view.                *)

\* The replies left after the first n
Rest(reps, n) == SubSeq(reps, n + 1, Len(reps))

\* The fields of a decoded deployment that the list command reads
Deployment(e) == [ID |-> safeInt(Get(e, "id")), Timestamp |-> safeString(Get(e, "timestamp"))]

\* deployments list: the identifier from --name, --guid or the argument;
\* the client; the app ID; the deployments; then the time filter and the
\* limit.  opts.client says whether opts.APIClient() yields a client.
runList(opts, args, now, offset, reps) ==
    LET identifier ==
            IF opts.name # <<>> THEN opts.name
            ELSE IF opts.guid # <<>> THEN opts.guid
            ELSE IF Len(args) > 0 THEN args[1] ELSE <<>>
        parse(s) == IF s # <<>> THEN ParseFlexibleTime(s, now, offset)
                    ELSE [t |-> ZeroTime, err |-> NoErr]
        limited(deployments) ==
            IF opts.limit > 0 /\ Len(deployments) > opts.limit
            THEN SubSeq(deployments, 1, opts.limit) ELSE deployments
        until(used, deployments, since, u) ==
            IF IsErr(u.err)
            THEN Returned(Errorf("invalid --until value: %w", <<u.err>>), Null, used)
            ELSE Returned(NoErr, limited(FilterDeploymentsByTime(deployments, since.t, u.t)), used)
        since(used, deployments, s) ==
            IF IsErr(s.err)
            THEN Returned(Errorf("invalid --since value: %w", <<s.err>>), Null, used)
            ELSE until(used, deployments, s, parse(opts.until))
        listed(r, d) ==
            IF d.k = "req" THEN d
            ELSE IF IsErr(d.err) THEN Returned(d.err, Null, r.used + d.used)
            ELSE since(r.used + d.used, [i \in DOMAIN d.val |-> Deployment(d.val[i])],
                       parse(opts.since))
        resolved(r) ==
            IF r.k = "req" THEN r
            ELSE IF IsErr(r.err)
            THEN Returned(Errorf("failed to resolve application: %w", <<r.err>>), Null, r.used)
            ELSE listed(r, ListDeployments(r.val, Rest(reps, r.used)))
    IN  IF opts.name = <<>> /\ opts.guid = <<>> /\ Len(args) = 0
        THEN Returned(Errorf("application must be specified via positional argument, --name, or --guid",
                             <<>>), Null, 0)
        ELSE IF ~opts.client THEN Returned(Errorf("APIClient", <<>>), Null, 0)
        ELSE resolved(ResolveAppID(identifier, reps))

-----------------------------------------------------------------------------
(* Stored credentials.  The credentials file is a function from the keys   *)
(* it holds to their values; the file that holds no key does not exist.    *)
(* The environment is a function from the NEWRELIC_* variables to their    *)
(* values, the empty string for a variable that is unset.                  *)

APIKeyKey == "api_key"
AccountIDKey == "account_id"
RegionKey == "region"

upperByte(c) == IF c \in 97..122 THEN c - 32 ELSE c

\* strings.ToUpper
ToUpper(s) == [i \in 1..Len(s) |-> upperByte(s[i])]

\* getFromConfigFile: the value of the key's line
getCredential(store, key) ==
    IF DOMAIN store = {} THEN [value |-> <<>>, err |-> Errorf("ReadFile", <<>>)]
    ELSE IF key \in DOMAIN store THEN [value |-> store[key], err |-> NoErr]
    ELSE [value |-> <<>>, err |-> Errorf("key not found", <<>>)]

\* deleteFromConfigFile: the file without the key's line, removed when no
\* line remains
deleteCredential(store, key) ==
    IF DOMAIN store = {} THEN [store |-> store, err |-> Errorf("ReadFile", <<>>)]
    ELSE [store |-> [k \in DOMAIN store \ {key} |-> store[k]], err |-> NoErr]

\* A credentials file with every key
StoredCredentials ==
    [api_key |-> B(<<"N", "R", "A", "K", "-", "7">>), account_id |-> B(<<"1", "2", "3", "4", "5">>), region |-> B(<<"E", "U">>)]

DeleteAPIKey(store) == deleteCredential(store, APIKeyKey)
DeleteAccountID(store) == deleteCredential(store, AccountIDKey)

\* GetAPIKey: the stored key, else NEWRELIC_API_KEY, else an error
GetAPIKey(store, env) ==
    IF ~IsErr(getCredential(store, APIKeyKey).err)
       /\ getCredential(store, APIKeyKey).value # <<>>
    THEN [value |-> getCredential(store, APIKeyKey).value, err |-> NoErr]
    ELSE IF env.NEWRELIC_API_KEY # <<>> THEN [value |-> env.NEWRELIC_API_KEY, err |-> NoErr]
    ELSE [value |-> <<>>, err |-> Errorf("no API key found", <<>>)]

\* GetAccountID: the stored ID, else NEWRELIC_ACCOUNT_ID, else an error
GetAccountID(store, env) ==
    IF ~IsErr(getCredential(store, AccountIDKey).err)
       /\ getCredential(store, AccountIDKey).value # <<>>
    THEN [value |-> getCredential(store, AccountIDKey).value, err |-> NoErr]
    ELSE IF env.NEWRELIC_ACCOUNT_ID # <<>>
    THEN [value |-> env.NEWRELIC_ACCOUNT_ID, err |-> NoErr]
    ELSE [value |-> <<>>, err |-> Errorf("no account ID found", <<>>)]

US == B(<<"U", "S">>)

\* GetRegion: the stored region, else NEWRELIC_REGION in upper case, else US
GetRegion(store, env) ==
    IF ~IsErr(getCredential(store, RegionKey).err)
       /\ getCredential(store, RegionKey).value # <<>>
    THEN getCredential(store, RegionKey).value
    ELSE IF env.NEWRELIC_REGION # <<>> THEN ToUpper(env.NEWRELIC_REGION)
    ELSE US

-----------------------------------------------------------------------------
(* The delete commands.  opts.Stdin is what the terminal holds when the    *)
(* command prompts, opts.client says whether opts.APIClient() yields a     *)
(* client; the value of a command is the line it hands to the view.        *)

Warning(msg) == [t |-> "warning", msg |-> msg]
Success(msg) == [t |-> "success", msg |-> msg]

\* Prompter.Confirm that takes an unfinished last line for an answer
Confirm_AtEndOfInput(stdin) ==
    ToLower(TrimSpace(
        IF Has(stdin, Ord("\n")) THEN SubSeq(stdin, 1, IndexOf(stdin, Ord("\n"))) ELSE stdin))
    \in {B(<<"y">>), B(<<"y", "e", "s">>)}

\* Prompter.Confirm: the first line, trimmed and in lower case, is y or
\* yes; input that ends before the end of a line is a refusal
Confirm(stdin) ==
    /\ Has(stdin, Ord("\n"))
    /\ ToLower(TrimSpace(SubSeq(stdin, 1, IndexOf(stdin, Ord("\n"))))) \in {B(<<"y">>), B(<<"y", "e", "s">>)}

\* config delete-api-key
runDeleteAPIKey(opts, store) ==
    LET deleted(d) ==
            IF IsErr(d.err)
            THEN [err |-> Errorf("failed to delete API key: %w", <<d.err>>), out |-> Null,
                  store |-> d.store]
            ELSE [err |-> NoErr, out |-> Success("API key deleted from config file"),
                  store |-> d.store]
    IN  IF ~opts.force /\ ~Confirm(opts.Stdin)
        THEN [err |-> NoErr, out |-> Warning("Operation canceled"), store |-> store]
        ELSE deleted(DeleteAPIKey(store))

\* config delete-account-id
runDeleteAccountID(opts, store) ==
    LET deleted(d) ==
            IF IsErr(d.err)
            THEN [err |-> Errorf("failed to delete account ID: %w", <<d.err>>), out |-> Null,
                  store |-> d.store]
            ELSE [err |-> NoErr, out |-> Success("Account ID deleted from config file"),
                  store |-> d.store]
    IN  IF ~opts.force /\ ~Confirm(opts.Stdin)
        THEN [err |-> NoErr, out |-> Warning("Operation canceled"), store |-> store]
        ELSE deleted(DeleteAccountID(store))

\* logs rules delete
runDeleteRule(opts, ruleID, accountID, reps) ==
    LET deleted(d) ==
            IF d.k = "req" THEN d
            ELSE IF IsErr(d.err) THEN Returned(d.err, Null, d.used)
            ELSE Returned(NoErr, Success("Log parsing rule %s deleted"), d.used)
    IN  IF ~opts.force /\ ~Confirm(opts.Stdin)
        THEN Returned(NoErr, Warning("Operation canceled"), 0)
        ELSE IF ~opts.client THEN Returned(Errorf("APIClient", <<>>), Null, 0)
        ELSE deleted(DeleteLogParsingRule(accountID, ruleID, reps))

\* dashboards delete: the dashboard is fetched for the prompt to show its
\* name
dashboards_runDelete(opts, guid, reps) ==
    LET deleted(used, d) ==
            IF d.k = "req" THEN d
            ELSE IF IsErr(d.err)
            THEN Returned(Errorf("failed to delete dashboard: %w", <<d.err>>), Null,
                          used + d.used)
            ELSE Returned(NoErr, Success("Dashboard \"%s\" deleted"), used + d.used)
        fetched(g) ==
            IF g.k = "req" THEN g
            ELSE IF IsErr(g.err)
            THEN Returned(Errorf("failed to get dashboard: %w", <<g.err>>), Null, g.used)
            ELSE IF ~opts.force /\ ~Confirm(opts.Stdin)
            THEN Returned(NoErr, Warning("Operation canceled"), g.used)
            ELSE deleted(g.used, DeleteDashboard(guid, Rest(reps, g.used)))
    IN  IF ~opts.client THEN Returned(Errorf("APIClient", <<>>), Null, 0)
        ELSE fetched(GetDashboard(guid, reps))

USER == B(<<"U", "S", "E", "R">>)
INGEST == B(<<"I", "N", "G", "E", "S", "T">>)

\* The loop of keys delete that looks every key up and sorts its ID by the
\* type found
RECURSIVE lookupKeyTypes(_, _, _, _, _)
lookupKeyTypes(keyIDs, userKeyIDs, ingestKeyIDs, used, reps) ==
    LET found(id, f) ==
            IF f.k = "req" THEN f
            ELSE IF IsErr(f.err)
            THEN Returned(Errorf("could not determine type for key %s (use --type to specify): %w",
                                 <<id, f.err>>), Null, used + f.used)
            ELSE IF f.val.Type = USER
            THEN lookupKeyTypes(Tail(keyIDs), Append(userKeyIDs, id), ingestKeyIDs,
                          used + f.used, reps)
            ELSE IF f.val.Type = INGEST
            THEN lookupKeyTypes(Tail(keyIDs), userKeyIDs, Append(ingestKeyIDs, id),
                          used + f.used, reps)
            ELSE Returned(Errorf("unexpected key type %q for key %s", <<f.val.Type, id>>),
                          Null, used + f.used)
    IN  IF keyIDs = <<>>
        THEN Returned(NoErr, [userKeyIDs |-> userKeyIDs, ingestKeyIDs |-> ingestKeyIDs], used)
        ELSE found(Head(keyIDs), FindAPIAccessKey(Head(keyIDs), Rest(reps, used)))

\* A loop that deletes each key as soon as its type is known
RECURSIVE deleteOneByOne(_, _, _)
deleteOneByOne(keyIDs, used, reps) ==
    LET deleted(u, d) ==
            IF d.k = "req" THEN d
            ELSE IF IsErr(d.err) THEN Returned(d.err, Null, u + d.used)
            ELSE deleteOneByOne(Tail(keyIDs), u + d.used, reps)
        found(id, f) ==
            IF f.k = "req" THEN f
            ELSE IF IsErr(f.err)
            THEN Returned(Errorf("could not determine type for key %s (use --type to specify): %w",
                                 <<id, f.err>>), Null, used + f.used)
            ELSE IF f.val.Type = USER
            THEN deleted(used + f.used,
                         DeleteAPIAccessKeys(<<id>>, <<>>, Rest(reps, used + f.used)))
            ELSE IF f.val.Type = INGEST
            THEN deleted(used + f.used,
                         DeleteAPIAccessKeys(<<>>, <<id>>, Rest(reps, used + f.used)))
            ELSE Returned(Errorf("unexpected key type %q for key %s", <<f.val.Type, id>>),
                          Null, used + f.used)
    IN  IF keyIDs = <<>> THEN Returned(NoErr, Success("%d API keys deleted"), used)
        ELSE found(Head(keyIDs), FindAPIAccessKey(Head(keyIDs), Rest(reps, used)))

\* keys delete that deletes the keys one by one
keys_runDelete_OneByOne(opts, keyIDs, reps) ==
    IF ~opts.force /\ ~Confirm(opts.Stdin)
    THEN Returned(NoErr, Warning("Operation canceled"), 0)
    ELSE IF ~opts.client THEN Returned(Errorf("APIClient", <<>>), Null, 0)
    ELSE deleteOneByOne(keyIDs, 0, reps)

\* keys delete: with --type every ID is of that type, without it the type
\* of every key is looked up; then one delete for all of them
keys_runDelete(opts, keyIDs, reps) ==
    LET deleted(used, d) ==
            IF d.k = "req" THEN d
            ELSE IF IsErr(d.err) THEN Returned(d.err, Null, used + d.used)
            ELSE Returned(NoErr, Success("%d API keys deleted"), used + d.used)
        sorted(s) ==
            IF s.k = "req" \/ IsErr(s.err) THEN s
            ELSE deleted(s.used, DeleteAPIAccessKeys(s.val.userKeyIDs, s.val.ingestKeyIDs,
                                                     Rest(reps, s.used)))
        typed(t) ==
            IF t # USER /\ t # INGEST
            THEN Returned(Errorf("invalid key type %q: must be user or ingest",
                                 <<opts.keyType>>), Null, 0)
            ELSE IF t = USER THEN deleted(0, DeleteAPIAccessKeys(keyIDs, <<>>, reps))
            ELSE deleted(0, DeleteAPIAccessKeys(<<>>, keyIDs, reps))
    IN  IF ~opts.force /\ ~Confirm(opts.Stdin)
        THEN Returned(NoErr, Warning("Operation canceled"), 0)
        ELSE IF ~opts.client THEN Returned(Errorf("APIClient", <<>>), Null, 0)
        ELSE IF opts.keyType # <<>> THEN typed(ToUpper(opts.keyType))
        ELSE sorted(lookupKeyTypes(keyIDs, <<>>, <<>>, 0, reps))

-----------------------------------------------------------------------------
(* Inputs of the resolver *)

MaxEntities == 2

Str7 == B(<<"7">>)
Str1377 == B(<<"1", "3", "7", "7">>)
Str137708979 == B(<<"1", "3", "7", "7", "0", "8", "9", "7", "9">>)
Str2712640 == B(<<"2", "7", "1", "2", "6", "4", "0">>)
BROWSER == B(<<"B", "R", "O", "W", "S", "E", "R">>)
HOST == B(<<"H", "O", "S", "T">>)

\* base64(prefix|domain|type|id)
EncodeGUID(prefix, domain, entityType, entityID) ==
    EncodeToString(Join(<<prefix, domain, entityType, entityID>>, Pipe))

\* Well-formed GUIDs of 28 to 48 characters
GUIDs ==
    {EncodeGUID(n[1], k[1], k[2], n[2]) :
        n \in {<<Str7, Str7>>, <<Str2712640, Str1377>>, <<Str2712640, Str137708979>>},
        k \in {<<APM, APPLICATION>>, <<BROWSER, APPLICATION>>, <<APM, HOST>>}}

\* Strings that pass looksLikeGUID and are no GUID: a payload without '|',
\* a length that is no multiple of four, padding in the middle, five parts
NearGUIDs ==
    {Repeat(B(<<"A">>), 40),
     Repeat(B(<<"A">>), 41),
     Repeat(B(<<"A", "=">>), 20),
     Repeat(B(<<"1">>), 40),
     EncodeToString(Join(<<Str2712640, APM, APPLICATION, Str137708979, Str7>>, Pipe))}

NumericIDs == {B(<<"0">>), B(<<"0", "0", "7">>), Str137708979}

Names ==
    {<<>>,
     B(<<"m", "y", " ", "a", "p", "p">>),
     B(<<"1", "2", "a">>),
     B(<<"a", "p", "p", "-", "1">>)}

Identifiers == GUIDs \cup NearGUIDs \cup NumericIDs \cup Names

-----------------------------------------------------------------------------
(* Replies of the server *)

HTTPReply(status, body) == [transport |-> "ok", status |-> status, body |-> body]
TransportFailure(kind) ==
    [transport |-> kind, status |-> 0, body |-> [json |-> FALSE, data |-> Null, errors |-> <<>>]]

NotJSON == [json |-> FALSE, data |-> Null, errors |-> <<>>]
GraphQLBody(data, errors) == [json |-> TRUE, data |-> data, errors |-> errors]

MsgBoom == B(<<"b", "o", "o", "m">>)
MsgDenied == B(<<"d", "e", "n", "i", "e", "d">>)

\* All sequences over S of length at most n
RECURSIVE SeqsUpTo(_, _)
SeqsUpTo(S, n) ==
    IF n = 0 THEN {<<>>}
    ELSE LET shorter == SeqsUpTo(S, n - 1)
         IN  shorter \cup {Append(q, x) : q \in {r \in shorter : Len(r) = n - 1}, x \in S}

\* The object {path[1]: {path[2]: ... leaf}}
RECURSIVE Nest(_, _)
Nest(path, leaf) ==
    IF path = <<>> THEN leaf ELSE Obj(Head(path) :> Nest(Tail(path), leaf))

\* Values that are neither an object nor a list
Scalars == {Null, Str(MsgBoom), Num(5), Bool(TRUE)}

\* The trees in which the walk along path stops short: at some level the
\* key is absent or holds a value of the wrong kind
Broken(path) ==
    UNION {{Nest(SubSeq(path, 1, n), leaf) :
               leaf \in Scalars \cup {Obj(<<>>)} \cup
                         (IF n = Len(path) THEN {} ELSE {List(<<>>)})} :
           n \in 0..Len(path)}

\* What the server may answer when the call fails before any mapping
FailedReplies(data) ==
    {TransportFailure("doFailed"), TransportFailure("readFailed"),
     HTTPReply(401, NotJSON), HTTPReply(500, GraphQLBody(Null, <<MsgBoom>>)),
     HTTPReply(200, NotJSON),
     HTTPReply(200, GraphQLBody(Null, <<MsgBoom>>)),
     HTTPReply(200, GraphQLBody(data, <<MsgDenied, MsgBoom>>))}

EntitySearchPath == <<"actor", "entitySearch", "results", "entities">>

EntityElements ==
    {Obj([guid |-> Str(g), name |-> Str(B(<<"a", "p", "p", "-", "1">>))]) :
        g \in {EncodeGUID(Str2712640, APM, APPLICATION, Str137708979),
               EncodeGUID(Str7, APM, APPLICATION, Str7),
               EncodeGUID(Str2712640, BROWSER, APPLICATION, Str137708979)}}
    \cup {Obj([name |-> Str(B(<<"a", "p", "p", "-", "1">>))]), Str(MsgBoom)}

EntitySearchData ==
    {Nest(EntitySearchPath, List(l)) : l \in SeqsUpTo(EntityElements, MaxEntities)}

EntitySearchReplies ==
    FailedReplies(Nest(EntitySearchPath, List(<<>>)))
    \cup {HTTPReply(200, GraphQLBody(d, <<>>)) : d \in EntitySearchData \cup Broken(EntitySearchPath)}

-----------------------------------------------------------------------------
(* Replies to the other queries and to the mutations *)

MaxItems == 2

AppName == B(<<"a", "p", "p", "-", "1">>)

\* Elements of a response list: two objects, one of them marked deleted,
\* and a string
Elements ==
    {Obj([id |-> Str(Str7), name |-> Str(AppName)]),
     Obj([id |-> Str(Str1377), deleted |-> Bool(TRUE)]),
     Str(MsgBoom)}

Lists(elements, n) == {List(l) : l \in SeqsUpTo(elements, n)}

\* A rule with every field
StoredRule ==
    Obj([id |-> Str(Str7), description |-> Str(MsgDenied), enabled |-> Bool(TRUE),
         grok |-> Str(AppName), lucene |-> Str(Str1377), nrql |-> Str(MsgBoom)])

\* Elements of parsingRules: a rule with every field, a rule marked
\* deleted, and a string
RuleElements ==
    {StoredRule,
     Obj([id |-> Str(Str1377), description |-> Str(MsgBoom), deleted |-> Bool(TRUE)]),
     Str(MsgBoom)}

\* Authentication domains: with a users list, without one, and a string
DomainElements ==
    {Obj([name |-> Str(AppName), users |-> Obj([users |-> users])]) :
        users \in Lists(Elements, 1) \cup {List(<<Str(MsgBoom), Obj([id |-> Str(Str7)])>>)}}
    \cup {Obj([name |-> Str(MsgDenied),
                users |-> Obj([users |-> List(<<Obj([id |-> Str(Str1377),
                                                     type |-> Obj([displayName |-> Str(MsgBoom)])]),
                                                Obj([id |-> Str(Str7)])>>)])]),
           Obj([name |-> Str(AppName)]), Str(MsgBoom)}

\* What the server may answer to a query whose result lies at path
MapperReplies(path, leaves) ==
    FailedReplies(Nest(path, List(<<>>)))
    \cup {HTTPReply(200, GraphQLBody(d, <<>>)) :
             d \in Broken(path) \cup {Nest(path, leaf) : leaf \in leaves}}

\* The errors field of a mutation result: absent, empty, two errors, and a
\* first error that is no object
ErrorFields(key) ==
    {<<>>,
     "errors" :> List(<<>>),
     "errors" :> List(<<Obj(key :> Str(MsgDenied)), Obj(key :> Str(MsgBoom))>>),
     "errors" :> List(<<Str(MsgBoom)>>)}

\* What the server may answer to the mutation named key
MutationReplies(key, errorKey, payloads) ==
    FailedReplies(Obj(key :> Obj(<<>>)))
    \cup {HTTPReply(200, GraphQLBody(d, <<>>)) :
             d \in {Obj(<<>>), Obj(key :> Str(MsgBoom))}
                   \cup {Obj(key :> Obj(e @@ p)) : e \in ErrorFields(errorKey), p \in payloads}}

FAILED == B(<<"F", "A", "I", "L", "E", "D">>)

-----------------------------------------------------------------------------
(* The client as a state machine: an operation is invoked, blocks on each  *)
(* request until the transport delivers the reply, and returns.            *)

NoCall == [op |-> "none"]
NoRet == [err |-> NoErr, val |-> Null]

\* The operation c run against the replies reps
Exec(c, reps) ==
    CASE c.op = "ResolveAppID" -> ResolveAppID(c.identifier, reps)
      [] c.op = "NerdGraphQuery" -> NerdGraphQuery(c.query, c.variables, reps)
      [] c.op = "SearchEntities" -> SearchEntities(c.queryStr, reps)
      [] c.op = "ListDashboards" -> ListDashboards(AccountID, reps)
      [] c.op = "GetDashboard" -> GetDashboard(c.guid, reps)
      [] c.op = "ListUsers" -> ListUsers(reps)
      [] c.op = "GetUser" -> GetUser(c.userID, reps)
      [] c.op = "GetAlertPolicy" -> GetAlertPolicy(AccountID, c.policyID, reps)
      [] c.op = "SearchAPIKeys" -> SearchAPIKeys(c.keyTypes, c.accountID, reps)
      [] c.op = "GetAPIAccessKey" -> GetAPIAccessKey(c.keyID, c.keyType, reps)
      [] c.op = "FindAPIAccessKey" -> FindAPIAccessKey(c.keyID, reps)
      [] c.op = "ListLogParsingRules" -> ListLogParsingRules(AccountID, reps)
      [] c.op = "GetLogParsingRule" -> GetLogParsingRule(AccountID, c.ruleID, reps)
      [] c.op = "QueryNRQL" -> QueryNRQL(AccountID, c.nrql, reps)
      [] c.op = "CreateLogParsingRule" -> CreateLogParsingRule(AccountID, c.rule, reps)
      [] c.op = "UpdateLogParsingRule" ->
            UpdateLogParsingRule(AccountID, c.ruleID, c.update, reps)
      [] c.op = "DeleteLogParsingRule" -> DeleteLogParsingRule(AccountID, c.ruleID, reps)
      [] c.op = "CreateDashboard" -> CreateDashboard(AccountID, c.input, reps)
      [] c.op = "UpdateDashboard" -> UpdateDashboard(c.guid, c.input, reps)
      [] c.op = "DeleteDashboard" -> DeleteDashboard(c.guid, reps)
      [] c.op = "CreateUserAPIKey" ->
            CreateUserAPIKey(c.accountID, c.userID, c.name, c.notes, reps)
      [] c.op = "UpdateAPIAccessKey" -> UpdateAPIAccessKey(c.keyID, c.keyType, c.update, reps)
      [] c.op = "DeleteAPIAccessKeys" ->
            DeleteAPIAccessKeys(c.userKeyIDs, c.ingestKeyIDs, reps)
      [] c.op = "TestConnection" -> TestConnection(AccountID, reps)
      [] c.op = "GetCurrentUserID" -> GetCurrentUserID(reps)
      [] c.op = "CreateIngestAPIKey" ->
            CreateIngestAPIKey(c.accountID, c.ingestType, c.name, c.notes, reps)
      [] c.op = "ListApplications" -> ListApplications(reps)
      [] c.op = "GetApplication" -> GetApplication(c.appID, reps)
      [] c.op = "ListApplicationMetrics" -> ListApplicationMetrics(c.appID, reps)
      [] c.op = "ListAlertPolicies" -> ListAlertPolicies(reps)
      [] c.op = "ListDeployments" -> ListDeployments(c.appID, reps)
      [] c.op = "CreateDeployment" ->
            CreateDeployment(c.appID, c.revision, c.description, c.user, c.changelog, reps)
      [] c.op = "ListSyntheticMonitors" -> ListSyntheticMonitors(reps)
      [] c.op = "GetSyntheticMonitor" -> GetSyntheticMonitor(c.monitorID, reps)
      [] c.op = "CreateSyntheticMonitor" -> CreateSyntheticMonitor(c.input, reps)
      [] c.op = "UpdateSyntheticMonitor" ->
            UpdateSyntheticMonitor(c.monitorID, c.input, reps)
      [] c.op = "DeleteSyntheticMonitor" -> DeleteSyntheticMonitor(c.monitorID, reps)
      [] c.op = "FilterDeploymentsByTime" ->
            Returned(NoErr, FilterDeploymentsByTime(c.deployments, c.since, c.until), 0)

\* What the server may answer to a REST request: failures, bodies that are
\* no object, and objects with and without the key of the response type
RESTReplies(format) ==
    LET key == CASE format = "BaseURL/applications.json" -> "applications"
                 [] format = "BaseURL/applications/%s.json" -> "application"
                 [] format = "BaseURL/applications/%s/metrics.json" -> "metrics"
                 [] format = "BaseURL/alerts_policies.json" -> "policies"
                 [] format = "BaseURL/applications/%s/deployments.json" -> "deployments"
                 [] format = "SyntheticsURL/monitors.json" -> "monitors"
                 [] OTHER -> "name"
    IN  FailedReplies(Obj(<<>>))
        \cup {HTTPReply(200, GraphQLBody(d, <<>>)) :
                 d \in {Null, Str(MsgBoom), Obj(<<>>)}
                       \cup {Obj(key :> leaf) :
                                leaf \in {List(<<>>), List(<<Obj([id |-> Str(Str7)])>>),
                                          List(<<Str(MsgBoom)>>), Obj([id |-> Str(Str7)]),
                                          Str(MsgBoom),
                                          List(<<Obj([id |-> Num(1),
                                                      timestamp |-> Str(B(<<"2", "0", "2", "5", "-", "0", "1", "-", "1", "0", "T", "1", "0", ":", "0", "0", ":", "0", "0", "Z">>))]),
                                                 Obj([id |-> Num(2),
                                                      timestamp |-> Str(B(<<"2", "0", "2", "5", "-", "0", "1", "-", "1", "4">>))])>>)}}}

\* What the server may answer to the request req
ServerReplies(req) ==
    LET q == req.body.query
        one == {Obj([id |-> Str(Str7), name |-> Str(AppName)])}
    IN  IF "query" \notin DOMAIN req.body THEN RESTReplies(req.url.format)
        ELSE
        CASE q = "actor.entitySearch.results.entities" -> EntitySearchReplies
          [] q = "query" -> FailedReplies(Obj(<<>>)) \cup {HTTPReply(200, GraphQLBody(d, <<>>)) : d \in one}
          [] q = "actor.entity" -> MapperReplies(<<"actor", "entity">>, one)
          [] q = "actor.organization.userManagement.authenticationDomains.authenticationDomains" ->
                MapperReplies(UsersPath \o <<"authenticationDomains">>,
                              Lists(DomainElements, MaxItems))
          [] q = "actor.account.alerts.policy" ->
                MapperReplies(<<"actor", "account", "alerts", "policy">>, one)
          [] q = "actor.apiAccess.keySearch.keys" ->
                MapperReplies(<<"actor", "apiAccess", "keySearch", "keys">>,
                              Lists(Elements, MaxItems))
          [] q = "actor.apiAccess.key" -> MapperReplies(<<"actor", "apiAccess", "key">>, one)
          [] q = "actor.account.logConfigurations.parsingRules" ->
                MapperReplies(<<"actor", "account", "logConfigurations", "parsingRules">>,
                              Lists(RuleElements, MaxItems))
          [] q = "actor.account.nrql.results" ->
                MapperReplies(<<"actor", "account", "nrql", "results">>,
                              Lists(Elements, MaxItems))
          [] q = "actor.user" -> MapperReplies(<<"actor", "user">>, one)
          [] q = "actor.account" -> MapperReplies(<<"actor", "account">>, one)
          [] q \in {"logConfigurationsCreateParsingRule", "logConfigurationsUpdateParsingRule"} ->
                MutationReplies(q, "message", {<<>>, "rule" :> Obj([id |-> Str(Str7)])})
          [] q = "logConfigurationsDeleteParsingRule" -> MutationReplies(q, "message", {<<>>})
          [] q \in {"dashboardCreate", "dashboardUpdate"} ->
                MutationReplies(q, "description",
                                {<<>>, "entityResult" :> Obj([guid |-> Str(Str7)])})
          [] q = "dashboardDelete" ->
                MutationReplies(q, "description",
                                {<<>>, "status" :> Str(SUCCESS), "status" :> Str(FAILED)})
          [] q = "apiAccessCreateKeys" ->
                MutationReplies(q, "message",
                                {<<>>, "createdKeys" :> List(<<>>),
                                 "createdKeys" :> List(<<Obj([id |-> Str(Str7)])>>)})
          [] q = "apiAccessUpdateKeys" ->
                MutationReplies(q, "message",
                                {<<>>, "updatedKeys" :> List(<<>>),
                                 "updatedKeys" :> List(<<Obj([id |-> Str(Str7)])>>)})
          [] q = "apiAccessDeleteKeys" ->
                MutationReplies(q, "message",
                                {<<>>, "deletedKeys" :> List(<<Obj([id |-> Str(Str7)]),
                                                               Str(MsgBoom)>>)})

\* The deployments list command run against the replies reps
ExecList(c, reps) == runList(c.opts, c.args, c.now, c.offset, reps)

\* The delete command c run against the replies reps
ExecDelete(c, reps) ==
    CASE c.op = "runDeleteRule" -> runDeleteRule(c.opts, c.ruleID, AccountID, reps)
      [] c.op = "dashboards.runDelete" -> dashboards_runDelete(c.opts, c.guid, reps)
      [] c.op = "keys.runDelete" -> keys_runDelete(c.opts, c.keyIDs, reps)
      [] c.op = "runDeleteAPIKey" ->
            LET result(r) == Returned(r.err, r.out, 0)
            IN  result(runDeleteAPIKey(c.opts, c.store))
      [] c.op = "runDeleteAccountID" ->
            LET result(r) == Returned(r.err, r.out, 0)
            IN  result(runDeleteAccountID(c.opts, c.store))

\* The function c applied to its arguments
Eval(c) ==
    CASE c.op = "ParseGUID" ->
            LET result(g) == Returned(g.err, g.parts, 0)
            IN  result(ParseGUID(c.guid))
      [] c.op = "ExtractAppIDFromGUID" ->
            LET result(g) == Returned(g.err, g.val, 0)
            IN  result(ExtractAppIDFromGUID(c.guid))
      [] c.op = "NewAccountID" ->
            LET result(err) ==
                    IF IsErr(err) THEN Returned(err, [id |-> <<>>, int |-> 0], 0)
                    ELSE Returned(NoErr, [id |-> c.s, int |-> AccountIDInt(c.s)], 0)
            IN  result(NewAccountID(c.s))
      [] c.op = "safeString" -> Returned(NoErr, safeString(c.v), 0)
      [] c.op = "safeInt" -> Returned(NoErr, safeInt(c.v), 0)
      [] c.op = "safeMap" -> Returned(NoErr, safeMap(c.v), 0)
      [] c.op = "safeSlice" -> Returned(NoErr, safeSlice(c.v), 0)
      [] c.op = "GetAPIKey" ->
            LET result(r) == Returned(r.err, r.value, 0)
            IN  result(GetAPIKey(c.store, c.env))
      [] c.op = "GetAccountID" ->
            LET result(r) == Returned(r.err, r.value, 0)
            IN  result(GetAccountID(c.store, c.env))
      [] c.op = "GetRegion" -> Returned(NoErr, GetRegion(c.store, c.env), 0)

\* ParseFlexibleTime applied to its arguments
EvalTime(c) ==
    LET result(r) == Returned(r.err, r.t, 0)
    IN  result(ParseFlexibleTime(c.s, c.now, c.offset))

\* The step of c that r describes: c blocks on the request r asks for, or
\* is done with the result r holds
Apply(c, reps, r) ==
    /\ call' = c
    /\ replies' = reps
    /\ IF r.k = "req"
       THEN /\ pc' = "wait"
            /\ requests' = Append(requests, r.req)
            /\ ret' = NoRet
       ELSE /\ pc' = "done"
            /\ requests' = requests
            /\ ret' = [err |-> r.err, val |-> r.val]
    /\ UNCHANGED AccountID

Run(c, reps) == Apply(c, reps, Exec(c, reps))

\* A step of the operation that leaves the stored rule and the credentials
\* file alone
Advance(c, reps) == Run(c, reps) /\ UNCHANGED <<server, stored>>

\* A call of a function
Evaluate(c) == Apply(c, <<>>, Eval(c)) /\ UNCHANGED <<server, stored>>

\* The transport delivers a reply to the blocked operation
Receive ==
    /\ pc = "wait"
    /\ \E reply \in ServerReplies(requests[Len(requests)]) :
          Advance(call, Append(replies, reply))

\* The caller takes the result; the client is ready for the next operation
Return ==
    /\ pc = "done"
    /\ pc' = "idle"
    /\ call' = NoCall
    /\ requests' = <<>>
    /\ replies' = <<>>
    /\ ret' = NoRet
    /\ UNCHANGED <<AccountID, server, stored>>

\* The account ID is copied from the configuration unchecked: unset, a
\* positive integer, no number, and zero
AccountIDs == {<<>>, B(<<"1", "2", "3", "4", "5">>), B(<<"a", "b", "c">>), B(<<"0">>)}

Init ==
    /\ AccountID \in AccountIDs
    /\ pc = "idle"
    /\ call = NoCall
    /\ requests = <<>>
    /\ replies = <<>>
    /\ ret = NoRet
    /\ server = <<[by |-> "init", kind |-> "write", rule |-> StoredRule]>>
    /\ stored = StoredCredentials

\* The caller invokes ResolveAppID(identifier)
CallResolveAppID ==
    /\ pc = "idle"
    /\ \E identifier \in Identifiers :
          Advance([op |-> "ResolveAppID", identifier |-> identifier], <<>>)

NextResolve == CallResolveAppID \/ Receive \/ Return

SpecResolve == Init /\ [][NextResolve]_vars

-----------------------------------------------------------------------------
(* The queries *)

DashboardGUID == EncodeGUID(Str7, B(<<"V", "I", "Z">>), B(<<"D", "A", "S", "H">>), Str7)

CallNerdGraphQuery ==
    /\ pc = "idle"
    /\ Advance([op |-> "NerdGraphQuery", query |-> "query", variables |-> Null], <<>>)

CallSearchEntities ==
    /\ pc = "idle"
    /\ \E name \in {AppName} :
          Advance([op |-> "SearchEntities", queryStr |-> AppNameQuery(name)], <<>>)

CallListDashboards ==
    /\ pc = "idle"
    /\ Advance([op |-> "ListDashboards"], <<>>)

CallGetDashboard ==
    /\ pc = "idle"
    /\ Advance([op |-> "GetDashboard", guid |-> DashboardGUID], <<>>)

CallListUsers ==
    /\ pc = "idle"
    /\ Advance([op |-> "ListUsers"], <<>>)

CallGetUser ==
    /\ pc = "idle"
    /\ \E userID \in {Str7, Str1377} : Advance([op |-> "GetUser", userID |-> userID], <<>>)

CallGetAlertPolicy ==
    /\ pc = "idle"
    /\ Advance([op |-> "GetAlertPolicy", policyID |-> Str7], <<>>)

CallSearchAPIKeys ==
    /\ pc = "idle"
    /\ \E keyTypes \in {<<>>, <<"USER">>}, accountID \in {0, 12345} :
          Advance([op |-> "SearchAPIKeys", keyTypes |-> keyTypes, accountID |-> accountID],
                  <<>>)

CallGetAPIAccessKey ==
    /\ pc = "idle"
    /\ \E keyType \in {"USER", "INGEST"} :
          Advance([op |-> "GetAPIAccessKey", keyID |-> Str7, keyType |-> keyType], <<>>)

CallListLogParsingRules ==
    /\ pc = "idle"
    /\ Advance([op |-> "ListLogParsingRules"], <<>>)

CallQueryNRQL ==
    /\ pc = "idle"
    /\ Advance([op |-> "QueryNRQL", nrql |-> B(<<"S", "E", "L", "E", "C", "T", " ", "1">>)],
               <<>>)

NextMap ==
    \/ CallNerdGraphQuery
    \/ CallSearchEntities
    \/ CallListDashboards
    \/ CallGetDashboard
    \/ CallListUsers
    \/ CallGetUser
    \/ CallGetAlertPolicy
    \/ CallSearchAPIKeys
    \/ CallGetAPIAccessKey
    \/ CallListLogParsingRules
    \/ CallQueryNRQL
    \/ Receive
    \/ Return

SpecMap == Init /\ [][NextMap]_vars

-----------------------------------------------------------------------------
(* The mutations *)

Unset == [set |-> FALSE, v |-> <<>>]
Set(v) == [set |-> TRUE, v |-> v]

RuleUpdates ==
    {[Description |-> Unset, Enabled |-> Set(FALSE), Grok |-> Unset, Lucene |-> Unset,
      NRQL |-> Unset],
     [Description |-> Set(AppName), Enabled |-> Unset, Grok |-> Set(MsgBoom),
      Lucene |-> Unset, NRQL |-> Unset]}

DashboardInputs ==
    {[Name |-> AppName, Description |-> d, Permissions |-> p, Pages |-> <<>>] :
        d \in {<<>>, MsgBoom}, p \in {<<>>, PUBLIC_READ_WRITE}}

CallCreateLogParsingRule ==
    /\ pc = "idle"
    /\ \E enabled \in BOOLEAN :
          Advance([op |-> "CreateLogParsingRule",
                   rule |-> [description |-> AppName, enabled |-> enabled, grok |-> MsgBoom,
                             lucene |-> <<>>, nrql |-> MsgDenied]], <<>>)

CallUpdateLogParsingRule ==
    /\ pc = "idle"
    /\ \E ruleID \in {Str7, Str1377}, update \in RuleUpdates :
          Advance([op |-> "UpdateLogParsingRule", ruleID |-> ruleID, update |-> update], <<>>)

CallDeleteLogParsingRule ==
    /\ pc = "idle"
    /\ Advance([op |-> "DeleteLogParsingRule", ruleID |-> Str7], <<>>)

CallCreateDashboard ==
    /\ pc = "idle"
    /\ \E input \in DashboardInputs : Advance([op |-> "CreateDashboard", input |-> input], <<>>)

CallUpdateDashboard ==
    /\ pc = "idle"
    /\ \E input \in DashboardInputs :
          Advance([op |-> "UpdateDashboard", guid |-> DashboardGUID, input |-> input], <<>>)

CallDeleteDashboard ==
    /\ pc = "idle"
    /\ Advance([op |-> "DeleteDashboard", guid |-> DashboardGUID], <<>>)

CallCreateUserAPIKey ==
    /\ pc = "idle"
    /\ Advance([op |-> "CreateUserAPIKey", accountID |-> 12345, userID |-> 7,
                name |-> AppName, notes |-> <<>>], <<>>)

CallUpdateAPIAccessKey ==
    /\ pc = "idle"
    /\ \E keyType \in {"USER", "INGEST", "BROWSER"} :
          Advance([op |-> "UpdateAPIAccessKey", keyID |-> Str7, keyType |-> keyType,
                   update |-> [Name |-> Set(AppName), Notes |-> Unset]], <<>>)

CallDeleteAPIAccessKeys ==
    /\ pc = "idle"
    /\ \E userKeyIDs \in {<<>>, <<Str7>>}, ingestKeyIDs \in {<<>>, <<Str1377>>} :
          Advance([op |-> "DeleteAPIAccessKeys", userKeyIDs |-> userKeyIDs,
                   ingestKeyIDs |-> ingestKeyIDs], <<>>)

NextMutate ==
    \/ CallCreateLogParsingRule
    \/ CallUpdateLogParsingRule
    \/ CallDeleteLogParsingRule
    \/ CallCreateDashboard
    \/ CallUpdateDashboard
    \/ CallDeleteDashboard
    \/ CallCreateUserAPIKey
    \/ CallUpdateAPIAccessKey
    \/ CallDeleteAPIAccessKeys
    \/ Receive
    \/ Return

SpecMutate == Init /\ [][NextMutate]_vars

-----------------------------------------------------------------------------
(* The operations that make, or may make, more than one request *)

CallFindAPIAccessKey ==
    /\ pc = "idle"
    /\ Advance([op |-> "FindAPIAccessKey", keyID |-> Str7], <<>>)

CallGetLogParsingRule ==
    /\ pc = "idle"
    /\ \E ruleID \in {Str7, Str1377} :
          Advance([op |-> "GetLogParsingRule", ruleID |-> ruleID], <<>>)

CallTestConnection ==
    /\ pc = "idle"
    /\ Advance([op |-> "TestConnection"], <<>>)

NextOps ==
    \/ CallFindAPIAccessKey
    \/ CallGetAPIAccessKey
    \/ CallGetLogParsingRule
    \/ CallUpdateLogParsingRule
    \/ CallDeleteAPIAccessKeys
    \/ CallTestConnection
    \/ Receive
    \/ Return

SpecOps == Init /\ [][NextOps]_vars

-----------------------------------------------------------------------------
(* Every public operation of the client *)

MonitorInputs ==
    {[Name |-> AppName, Type |-> B(<<"S", "I", "M", "P", "L", "E">>), Frequency |-> 5,
      Status |-> B(<<"E", "N", "A", "B", "L", "E", "D">>), URI |-> uri,
      Locations |-> locations] :
        uri \in {<<>>, MsgBoom}, locations \in {<<>>, <<AppName>>}}

RESTCalls ==
    {[op |-> "ListApplications"], [op |-> "ListAlertPolicies"], [op |-> "ListSyntheticMonitors"]}
    \cup {[op |-> op, appID |-> Str7] :
             op \in {"GetApplication", "ListApplicationMetrics", "ListDeployments"}}
    \cup {[op |-> "CreateDeployment", appID |-> Str7, revision |-> Str1377,
            description |-> d, user |-> <<>>, changelog |-> d] : d \in {<<>>, MsgBoom}}
    \cup {[op |-> op, monitorID |-> Str7] :
             op \in {"GetSyntheticMonitor", "DeleteSyntheticMonitor"}}
    \cup {[op |-> "CreateSyntheticMonitor", input |-> input] : input \in MonitorInputs}
    \cup {[op |-> "UpdateSyntheticMonitor", monitorID |-> Str7, input |-> input] :
             input \in MonitorInputs}

\* The caller invokes one of the REST operations
CallREST ==
    /\ pc = "idle"
    /\ \E c \in RESTCalls : Advance(c, <<>>)

CallGetCurrentUserID ==
    /\ pc = "idle"
    /\ Advance([op |-> "GetCurrentUserID"], <<>>)

CallCreateIngestAPIKey ==
    /\ pc = "idle"
    /\ Advance([op |-> "CreateIngestAPIKey", accountID |-> 12345,
                ingestType |-> B(<<"L", "I", "C", "E", "N", "S", "E">>), name |-> AppName,
                notes |-> <<>>], <<>>)

NextAll ==
    \/ CallResolveAppID
    \/ CallNerdGraphQuery
    \/ CallSearchEntities
    \/ CallListDashboards
    \/ CallGetDashboard
    \/ CallListUsers
    \/ CallGetUser
    \/ CallGetAlertPolicy
    \/ CallSearchAPIKeys
    \/ CallGetAPIAccessKey
    \/ CallFindAPIAccessKey
    \/ CallGetCurrentUserID
    \/ CallCreateUserAPIKey
    \/ CallCreateIngestAPIKey
    \/ CallUpdateAPIAccessKey
    \/ CallDeleteAPIAccessKeys
    \/ CallListLogParsingRules
    \/ CallGetLogParsingRule
    \/ CallCreateLogParsingRule
    \/ CallUpdateLogParsingRule
    \/ CallDeleteLogParsingRule
    \/ CallQueryNRQL
    \/ CallCreateDashboard
    \/ CallUpdateDashboard
    \/ CallDeleteDashboard
    \/ CallTestConnection
    \/ CallREST
    \/ Receive
    \/ Return

SpecAll == Init /\ [][NextAll]_vars

-----------------------------------------------------------------------------
(* The update of a rule that another writer changes as well: the server    *)
(* keeps one rule of account 12345 and answers from it.                    *)

\* The reads and writes the server takes
MaxServed == 4

ServerAccount == DecimalValue(B(<<"1", "2", "3", "4", "5">>))

\* The rule the server holds
Stored == server[Len(server)].rule

\* The rule after the write of the five fields of a mutation
Written(rule) ==
    Obj([id |-> Get(Stored, "id"), description |-> Str(rule.description),
         enabled |-> Bool(rule.enabled), grok |-> Str(rule.grok),
         lucene |-> Str(rule.lucene), nrql |-> Str(rule.nrql)])

CallUpdateStoredRule ==
    /\ pc = "idle"
    /\ Len(server) + 2 <= MaxServed
    /\ \E ruleID \in {Str7, Str1377}, update \in RuleUpdates :
          Advance([op |-> "UpdateLogParsingRule", ruleID |-> ruleID, update |-> update], <<>>)

\* The server answers the query with the rule it holds
ServeRead ==
    /\ pc = "wait"
    /\ requests[Len(requests)].body.query = "actor.account.logConfigurations.parsingRules"
    /\ UNCHANGED stored
    /\ IF requests[Len(requests)].body.variables.accountId # ServerAccount
       THEN /\ Run(call, Append(replies, HTTPReply(200, GraphQLBody(Null, <<MsgDenied>>))))
            /\ server' = server
       ELSE /\ Run(call, Append(replies,
                   HTTPReply(200, GraphQLBody(
                       Nest(<<"actor", "account", "logConfigurations", "parsingRules">>,
                            List(<<Stored>>)), <<>>))))
            /\ server' = Append(server, [by |-> "client", kind |-> "read", rule |-> Stored])

\* The server replaces the rule it holds with the rule of the mutation
ServeWrite ==
    /\ pc = "wait"
    /\ requests[Len(requests)].body.query = "logConfigurationsUpdateParsingRule"
    /\ UNCHANGED stored
    /\ Run(call, Append(replies,
           HTTPReply(200, GraphQLBody(
               Obj("logConfigurationsUpdateParsingRule" :>
                       Obj("rule" :> Written(requests[Len(requests)].body.variables.rule))),
               <<>>))))
    /\ server' = Append(server,
                        [by |-> "client", kind |-> "write",
                         rule |-> Written(requests[Len(requests)].body.variables.rule)])

\* Another client updates one field of the rule
OtherWriter ==
    /\ Len(server) < MaxServed
    /\ \E key \in {"description", "nrql"}, v \in {AppName, MsgDenied} :
          server' = Append(server,
                           [by |-> "other", kind |-> "write",
                            rule |-> Obj([Stored.f EXCEPT ![key] = Str(v)])])
    /\ UNCHANGED <<AccountID, pc, call, requests, replies, ret, stored>>

NextRace == CallUpdateStoredRule \/ ServeRead \/ ServeWrite \/ OtherWriter \/ Return

SpecRace == Init /\ [][NextRace]_vars

-----------------------------------------------------------------------------
(* The time filter as an operation of the state machine *)

MaxDeployments == 2

TsJan10 ==
    B(<<"2", "0", "2", "5", "-", "0", "1", "-", "1", "0", "T", "1", "0", ":", "0", "0", ":", "0", "0", "Z">>)
TsJan12Offset ==
    B(<<"2", "0", "2", "5", "-", "0", "1", "-", "1", "2", "T", "1", "0", ":", "0", "0", ":", "0", "0", "+", "0", "2", ":", "0", "0">>)
TsJan12Fraction ==
    B(<<"2", "0", "2", "5", "-", "0", "1", "-", "1", "2", "T", "0", "8", ":", "0", "0", ":", "0", "0", ".", "5", "Z">>)
TsJan14Date == B(<<"2", "0", "2", "5", "-", "0", "1", "-", "1", "4">>)
TsJan16US == B(<<"0", "1", "/", "1", "6", "/", "2", "0", "2", "5">>)
TsNotADate == B(<<"n", "o", "t", "-", "a", "-", "d", "a", "t", "e">>)
TsFeb30 ==
    B(<<"2", "0", "2", "5", "-", "0", "2", "-", "3", "0", "T", "1", "0", ":", "0", "0", ":", "0", "0", "Z">>)
TsZero ==
    B(<<"0", "0", "0", "1", "-", "0", "1", "-", "0", "1", "T", "0", "0", ":", "0", "0", ":", "0", "0", "Z">>)

\* Timestamps of deployments: with Z, with an offset, with a fraction, a
\* date, a US date, two that do not parse, and the zero time
Timestamps == {TsJan10, TsJan12Offset, TsJan12Fraction, TsJan14Date,
               TsJan16US, TsNotADate, TsFeb30, TsZero}

\* The bounds: unset, the instant of TsJan12Offset, the start of TsJan14Date
Bounds == {ZeroTime, ParseDeploymentTimestamp(TsJan12Offset).t,
           ParseDeploymentTimestamp(TsJan14Date).t}

\* Deployments numbered in the order of the list
DeploymentLists ==
    {[i \in 1..Len(stamps) |-> [ID |-> i, Timestamp |-> stamps[i]]] :
        stamps \in SeqsUpTo(Timestamps, MaxDeployments)}

CallFilterDeploymentsByTime ==
    /\ pc = "idle"
    /\ \E deployments \in DeploymentLists, since \in Bounds, until \in Bounds :
          Advance([op |-> "FilterDeploymentsByTime", deployments |-> deployments,
                   since |-> since, until |-> until], <<>>)

NextFilter == CallFilterDeploymentsByTime \/ Return

SpecFilter == Init /\ [][NextFilter]_vars

-----------------------------------------------------------------------------
(* The flexible time parser as an operation of the state machine *)

\* Time expressions: blank ones, keywords, relative expressions, fixed
\* formats, and near misses of each
TimeExpressions ==
    {<<>>, B(<<" ", " ">>), B(<<"n", "o", "w">>), B(<<" ", "T", "o", "d", "a", "y", " ">>), B(<<"y", "e", "s", "t", "e", "r", "d", "a", "y">>), B(<<"t", "o", "m", "o", "r", "r", "o", "w">>),
     B(<<"3", "0", " ", "s", "e", "c", "o", "n", "d", "s", " ", "a", "g", "o">>), B(<<"5", " ", "m", "i", "n", "u", "t", "e", "s", " ", "a", "g", "o">>), B(<<"2", " ", "h", "o", "u", "r", "s", " ", "a", "g", "o">>), B(<<"7", " ", "d", "a", "y", "s", " ", "a", "g", "o">>),
     B(<<"1", " ", "w", "e", "e", "k", " ", "a", "g", "o">>), B(<<"1", " ", "m", "o", "n", "t", "h", " ", "a", "g", "o">>), B(<<"1", " ", "y", "e", "a", "r", " ", "a", "g", "o">>), B(<<"7", " ", "D", "a", "y", "s", " ", " ", "A", "g", "o">>),
     B(<<"7", "d", "a", "y", "s", " ", "a", "g", "o">>), B(<<"7", " ", "d", "a", "y", "s", "s", " ", "a", "g", "o">>), B(<<"d", "a", "y", "s", " ", "a", "g", "o">>), B(<<"7", " ", "d", "a", "y", "s", " ", "a", "g", "o", " ", "n", "o", "w">>),
     B(<<"7", " ", "f", "o", "r", "t", "n", "i", "g", "h", "t", "s", " ", "a", "g", "o">>), B(<<"n", "o", "t", " ", "a", " ", "d", "a", "t", "e">>), B(<<"2", "0", "2", "5", "-", "0", "1", "-", "1", "5">>), B(<<"2", "0", "2", "5", "-", "0", "2", "-", "3", "0">>),
     B(<<" ", "0", "1", "/", "1", "6", "/", "2", "0", "2", "5">>), B(<<"J", "a", "n", " ", "2", ",", " ", "2", "0", "2", "5">>), TsJan12Offset, TsJan12Fraction}

\* The clock: the last day of a month, a leap day just before midnight,
\* and the second hour of a year
Nows ==
    {ParseDeploymentTimestamp(B(<<"2", "0", "2", "5", "-", "0", "3", "-", "3", "1", "T", "1", "2", ":", "3", "0", ":", "1", "5", ".", "0", "0", "0", "0", "0", "0", "0", "0", "5", "Z">>)).t,
     ParseDeploymentTimestamp(B(<<"2", "0", "2", "4", "-", "0", "2", "-", "2", "9", "T", "2", "3", ":", "5", "9", ":", "5", "9", "Z">>)).t,
     ParseDeploymentTimestamp(B(<<"2", "0", "2", "5", "-", "0", "1", "-", "0", "1", "T", "0", "2", ":", "0", "0", ":", "0", "0", "Z">>)).t}

\* The zone of the process: UTC, five hours west, two hours east
Zones == {0, -18000, 7200}

CallParseFlexibleTime ==
    /\ pc = "idle"
    /\ \E s \in TimeExpressions, now \in Nows, offset \in Zones :
          /\ Apply([op |-> "ParseFlexibleTime", s |-> s, now |-> now, offset |-> offset], <<>>,
                   EvalTime([s |-> s, now |-> now, offset |-> offset]))
          /\ UNCHANGED <<server, stored>>

NextParse == CallParseFlexibleTime \/ Return

SpecParse == Init /\ [][NextParse]_vars

-----------------------------------------------------------------------------
(* The deployments list command as an operation of the state machine *)

\* Flags and arguments: the application by ID, by name, by GUID or not at
\* all; --since and --until unset, well-formed and malformed
ListOptions ==
    {[name |-> n[1], guid |-> n[2], since |-> since, until |-> until, limit |-> limit,
      client |-> client, args |-> n[3]] :
        n \in {<<<<>>, <<>>, <<>>>>, <<<<>>, <<>>, <<Str7>>>>, <<B(<<"a", "p", "p", "-", "1">>), <<>>, <<>>>>,
               <<<<>>, EncodeGUID(Str2712640, APM, APPLICATION, Str137708979), <<>>>>},
        since \in {<<>>, B(<<"2", "0", "2", "5", "-", "0", "1", "-", "1", "2">>), B(<<"n", "o", "t", " ", "a", " ", "d", "a", "t", "e">>)},
        until \in {<<>>, TsJan14Date, B(<<"7", " ", "f", "o", "r", "t", "n", "i", "g", "h", "t", "s", " ", "a", "g", "o">>)},
        limit \in {0, 1},
        client \in BOOLEAN}

\* The clock of the command
ListNow == ParseDeploymentTimestamp(TsJan12Fraction).t

\* A step of the command
RunList(c, reps) == Apply(c, reps, ExecList(c, reps)) /\ UNCHANGED <<server, stored>>

CallRunList ==
    /\ pc = "idle"
    /\ \E opts \in ListOptions :
          RunList([op |-> "runList", opts |-> opts, args |-> opts.args, now |-> ListNow,
                   offset |-> 0], <<>>)

\* The transport delivers a reply to the blocked command
ReceiveList ==
    /\ pc = "wait"
    /\ \E reply \in ServerReplies(requests[Len(requests)]) :
          RunList(call, Append(replies, reply))

NextList == CallRunList \/ ReceiveList \/ Return

SpecList == Init /\ [][NextList]_vars

-----------------------------------------------------------------------------
(* The GUID codec as operations of the state machine *)

\* The four parts of a GUID, in order: a numeric prefix; domains, types
\* and IDs, among them empty ones, ones in the wrong case and ones that
\* hold the separator
GUIDParts ==
    {<<prefix, domain, entityType, entityID>> :
        prefix \in {Str7, Str2712640},
        domain \in {APM, BROWSER, B(<<"a", "p", "m">>), B(<<"A", "|", "B">>), <<>>},
        entityType \in {APPLICATION, HOST, B(<<"a", "p", "p", "l", "i", "c", "a", "t", "i", "o", "n">>), <<>>},
        entityID \in {Str7, Str137708979, B(<<"1", "|", "2">>), <<>>}}

\* GUIDs as the tests build them, and strings that are none
EncodedGUIDs == {EncodeGUID(p[1], p[2], p[3], p[4]) : p \in GUIDParts} \cup NearGUIDs \cup Names

CallParseGUID ==
    /\ pc = "idle"
    /\ \E guid \in EncodedGUIDs : Evaluate([op |-> "ParseGUID", guid |-> guid])

CallExtractAppIDFromGUID ==
    /\ pc = "idle"
    /\ \E guid \in EncodedGUIDs : Evaluate([op |-> "ExtractAppIDFromGUID", guid |-> guid])

NextGUID == CallParseGUID \/ CallExtractAppIDFromGUID \/ Return

SpecGUID == Init /\ [][NextGUID]_vars

-----------------------------------------------------------------------------
(* The validated account ID and the safe accessors as operations of the    *)
(* state machine                                                           *)

\* Strings offered as account IDs: the cases of the tests, signs, zeros,
\* and a number beyond 64 bits
AccountIDInputs ==
    {<<>>, B(<<"1", "2", "3", "4", "5">>), B(<<"1">>), B(<<"a", "b", "c">>), B(<<"1", "2", ".", "3", "4">>), B(<<"-", "1">>), B(<<"0">>), B(<<"1", "2", "3", "a", "b", "c">>),
     B(<<" ", "1", "2", "3", " ">>), B(<<"0", "0", "1", "2", "3">>), B(<<"+", "5">>), B(<<"-", "0">>), B(<<"0", "0", "0">>), B(<<"+">>), B(<<"-">>), B(<<"1", "-", "2">>),
     B(<<"2", "1", "4", "7", "4", "8", "3", "6", "4", "7">>), B(<<"9", "9", "9", "9", "9", "9", "9", "9", "9", "9", "9", "9", "9", "9", "9", "9", "9", "9", "9", "9">>)}

CallNewAccountID ==
    /\ pc = "idle"
    /\ \E s \in AccountIDInputs : Evaluate([op |-> "NewAccountID", s |-> s])

\* Values of every kind encoding/json produces: nil, strings, numbers,
\* bools, objects and lists
TreeValues ==
    {Null, Str(<<>>), Str(AppName), Str(Str7), Num(0), Num(7), Bool(TRUE), Bool(FALSE),
     Obj(<<>>), Obj([id |-> Str(Str7)]), Obj([id |-> Num(7)]),
     List(<<>>), List(<<Null>>), List(<<Str(Str7), Num(7)>>)}

SafeAccessors == {"safeString", "safeInt", "safeMap", "safeSlice"}

CallSafeAccessor ==
    /\ pc = "idle"
    /\ \E op \in SafeAccessors, v \in TreeValues : Evaluate([op |-> op, v |-> v])

NextValues == CallNewAccountID \/ CallSafeAccessor \/ Return

SpecValues == Init /\ [][NextValues]_vars

-----------------------------------------------------------------------------
(* The delete commands and the configuration getters as operations of the  *)
(* state machine                                                           *)

\* What the terminal may hold when a command prompts: nothing, an empty
\* line, consent in several spellings, refusals, consent that is cut off
\* before the end of the line, and two lines
Stdins ==
    {<<>>, B(<<"\n">>), B(<<"y", "\n">>), B(<<"y", "e", "s", "\n">>), B(<<"Y", "\n">>),
     B(<<" ", "Y", "e", "s", " ", "\n">>), B(<<"n", "\n">>), B(<<"n", "o", "\n">>),
     B(<<"y">>), B(<<"y", "e", "s">>), B(<<"y", "y", "\n">>),
     B(<<"n", "\n", "y", "\n">>), B(<<"y", "\n", "n", "\n">>)}

ConfirmOptions == [force : BOOLEAN, Stdin : Stdins]
ClientOptions == [force : BOOLEAN, Stdin : Stdins, client : BOOLEAN]
KeysDeleteOptions ==
    [force : BOOLEAN, Stdin : Stdins, client : BOOLEAN,
     keyType : {<<>>, B(<<"u", "s", "e", "r">>), INGEST, B(<<"b", "r", "o", "w", "s", "e", "r">>)}]

\* The environment: every variable set or unset
Envs ==
    [NEWRELIC_API_KEY : {<<>>, B(<<"N", "R", "A", "K", "-", "1", "3", "7", "7">>)},
     NEWRELIC_ACCOUNT_ID : {<<>>, Str7},
     NEWRELIC_REGION : {<<>>, B(<<"e", "u">>), B(<<"u", "s">>)}]

\* The states in which the commands may find the credentials file
Stores == {StoredCredentials, <<>>, [region |-> B(<<"E", "U">>)]}

\* A key as the server reports it
KeyOfType(t) == Obj([id |-> Str(Str7), name |-> Str(AppName), type |-> Str(t)])

\* What the server may answer to the requests of the delete commands
CommandReplies(req) ==
    LET q == req.body.query
        data(path, leaves) == {HTTPReply(200, GraphQLBody(Nest(path, l), <<>>)) : l \in leaves}
        failures == {TransportFailure("doFailed"), HTTPReply(200, GraphQLBody(Null, <<MsgDenied>>))}
    IN  CASE q = "actor.apiAccess.key" ->
                failures \cup data(<<"actor", "apiAccess", "key">>,
                                   {Null, KeyOfType(USER), KeyOfType(INGEST), KeyOfType(BROWSER)})
          [] q = "actor.entity" ->
                failures \cup data(<<"actor", "entity">>,
                                   {Null, Obj([guid |-> Str(Str7), name |-> Str(AppName)])})
          [] q = "apiAccessDeleteKeys" ->
                failures \cup data(<<q>>,
                    {Obj([deletedKeys |-> List(<<Obj([id |-> Str(Str7)])>>)]),
                     Obj([errors |-> List(<<Obj([message |-> Str(MsgDenied)])>>)])})
          [] q = "dashboardDelete" ->
                failures \cup data(<<q>>, {Obj([status |-> Str(SUCCESS)]),
                                           Obj([status |-> Str(FAILED)])})
          [] q = "logConfigurationsDeleteParsingRule" ->
                failures \cup data(<<q>>,
                    {Obj(<<>>), Obj([errors |-> List(<<Obj([message |-> Str(MsgDenied)])>>)])})

\* A step of a delete command
RunDelete(c, reps) == Apply(c, reps, ExecDelete(c, reps)) /\ UNCHANGED server

\* The server answers a request of a command
ReceiveCommand ==
    /\ pc = "wait"
    /\ \E reply \in CommandReplies(requests[Len(requests)]) :
          RunDelete(call, Append(replies, reply)) /\ UNCHANGED stored

CallRunDeleteRule ==
    /\ pc = "idle"
    /\ \E opts \in ClientOptions :
          RunDelete([op |-> "runDeleteRule", opts |-> opts, ruleID |-> Str7], <<>>)
    /\ UNCHANGED stored

CallDashboardsRunDelete ==
    /\ pc = "idle"
    /\ \E opts \in ClientOptions :
          RunDelete([op |-> "dashboards.runDelete", opts |-> opts, guid |-> Str1377], <<>>)
    /\ UNCHANGED stored

CallKeysRunDelete ==
    /\ pc = "idle"
    /\ \E opts \in KeysDeleteOptions, keyIDs \in {<<Str7>>, <<Str7, Str1377>>} :
          RunDelete([op |-> "keys.runDelete", opts |-> opts, keyIDs |-> keyIDs], <<>>)
    /\ UNCHANGED stored

\* A command that works on the credentials file: the file after the
\* command is the file the command leaves
CallRunDeleteAPIKey ==
    /\ pc = "idle"
    /\ \E opts \in ConfirmOptions :
          /\ RunDelete([op |-> "runDeleteAPIKey", opts |-> opts, store |-> stored], <<>>)
          /\ stored' = runDeleteAPIKey(opts, stored).store

CallRunDeleteAccountID ==
    /\ pc = "idle"
    /\ \E opts \in ConfirmOptions :
          /\ RunDelete([op |-> "runDeleteAccountID", opts |-> opts, store |-> stored], <<>>)
          /\ stored' = runDeleteAccountID(opts, stored).store

\* A getter of the configuration reads the file and the environment
CallGetConfig ==
    /\ pc = "idle"
    /\ \E op \in {"GetAPIKey", "GetAccountID", "GetRegion"}, env \in Envs :
          Evaluate([op |-> op, env |-> env, store |-> stored])

InitCommands ==
    /\ AccountID \in {<<>>, B(<<"1", "2", "3", "4", "5">>)}
    /\ pc = "idle"
    /\ call = NoCall
    /\ requests = <<>>
    /\ replies = <<>>
    /\ ret = NoRet
    /\ server = <<[by |-> "init", kind |-> "write", rule |-> StoredRule]>>
    /\ stored \in Stores

NextCommands ==
    \/ CallRunDeleteRule
    \/ CallDashboardsRunDelete
    \/ CallKeysRunDelete
    \/ CallRunDeleteAPIKey
    \/ CallRunDeleteAccountID
    \/ CallGetConfig
    \/ ReceiveCommand
    \/ Return

SpecCommands == InitCommands /\ [][NextCommands]_vars

-----------------------------------------------------------------------------
(* Properties of the resolver *)

Resolving == pc # "idle" /\ call.op = "ResolveAppID"
Resolved == pc = "done" /\ call.op = "ResolveAppID"

AllDigits(s) == Len(s) > 0 /\ \A i \in 1..Len(s) : s[i] \in 48..57

\* A valid entity GUID whose payload is prefix|APM|APPLICATION|id
IsAppGUID(s) ==
    LET d == DecodeString(s)
    IN  /\ d.ok
        /\ \E prefix, id \in {Str7, Str1377, Str137708979, Str2712640} :
              d.bytes = Join(<<prefix, APM, APPLICATION, id>>, Pipe)

AppIDOf(s) == Split(DecodeString(s).bytes, Pipe)[4]

IsSearchRequest(req) == req.body.query = "actor.entitySearch.results.entities"

\* C1: for a non-empty identifier made of the digits 0-9 only, ResolveAppID
\* returns the identifier unchanged and issues no network call.
C1_NumericUnchanged ==
    (Resolving /\ AllDigits(call.identifier)) =>
        /\ pc = "done"
        /\ requests = <<>>
        /\ ret.err.type = "nil"
        /\ ret.val = call.identifier

C1_Witness ==
    /\ Resolved
    /\ call.identifier = B(<<"0", "0", "7">>)
    /\ ret.val = B(<<"0", "0", "7">>)
    /\ requests = <<>>

RECURSIVE At(_, _)
At(node, path) ==
    IF path = <<>> THEN node
    ELSE IF node.t = "obj" /\ Head(path) \in DOMAIN node.f
    THEN At(node.f[Head(path)], Tail(path))
    ELSE Null

\* The reply was delivered, decoded and carries no errors
Delivered(reply) ==
    /\ reply.transport = "ok" /\ reply.status < 400
    /\ reply.body.json /\ reply.body.errors = <<>>

\* The list at actor.entitySearch.results.entities of a reply that carries
\* one, and the number of objects in it
RawEntities(reply) == At(reply.body.data, EntitySearchPath).l

HasEntityList(reply) ==
    Delivered(reply) /\ At(reply.body.data, EntitySearchPath).t = "list"

Matches(reply) ==
    Cardinality({i \in 1..Len(RawEntities(reply)) : RawEntities(reply)[i].t = "obj"})

\* C3: when ResolveAppID is given a name and the search returns exactly
\* one match, exactly one request, the search, is issued; no resolution
\* ever issues a second request.
C3_OneCall ==
    Resolving =>
        /\ Len(requests) <= 1
        /\ (pc = "done" /\ Len(replies) = 1 /\ HasEntityList(replies[1])
              /\ Matches(replies[1]) = 1) =>
              (Len(requests) = 1 /\ IsSearchRequest(requests[1]))

C3_Witness ==
    /\ Resolved
    /\ call.identifier = B(<<"m", "y", " ", "a", "p", "p">>)
    /\ Len(replies) = 1 /\ HasEntityList(replies[1]) /\ Matches(replies[1]) = 1
    /\ ret.err.type = "nil"
    /\ Len(requests) = 1

\* C4: on the name-lookup path an application ID is returned only when the
\* search returned exactly one entity; zero entities give an error, and
\* more than one give the disambiguation error and no ID.
C4_NeverGuesses ==
    (Resolved /\ Len(replies) = 1) =>
        /\ ret.err.type = "nil" =>
              (HasEntityList(replies[1]) /\ Matches(replies[1]) = 1)
        /\ (HasEntityList(replies[1]) /\ Matches(replies[1]) = 0) =>
              (/\ ret.err.type = "errorString"
               /\ ret.err.format = "no APM application found with name: %s"
               /\ ret.val = <<>>)
        /\ (HasEntityList(replies[1]) /\ Matches(replies[1]) > 1) =>
              (/\ ret.err.type = "errorString"
               /\ ret.err.format =
                    "multiple applications found with name '%s', please use --guid or app ID"
               /\ ret.val = <<>>)

C4_Witness ==
    /\ Resolved
    /\ Len(replies) = 1 /\ HasEntityList(replies[1]) /\ Matches(replies[1]) = 2
    /\ \A i \in 1..2 : IsAppGUID(safeString(Get(RawEntities(replies[1])[i], "guid")))
    /\ ret.err.type = "errorString"
    /\ ret.val = <<>>

PassesHeuristic(s) ==
    Len(s) >= 40 /\ \A i \in 1..Len(s) : s[i] \in {base64Chars[j] : j \in 1..65}

GUIDFailure(s) == ~IsAppGUID(s)

FellThroughToName ==
    /\ Len(requests) = 1
    /\ IsSearchRequest(requests[1])
    /\ requests[1].body.variables.query.args = <<call.identifier>>
    /\ pc = "done" =>
          /\ Len(replies) = 1
          /\ ret.err.type = "errorString" =>
                ret.err.format \notin
                    {"invalid GUID format: %w",
                     "invalid GUID format: expected 4 parts, got %d",
                     "GUID is not for an APM application (domain=%s, type=%s)"}

\* C5 as claimed: an identifier that passes the length/alphabet heuristic
\* and is no valid APM/APPLICATION GUID is resolved by name lookup.
C5_FallThrough ==
    (Resolving /\ PassesHeuristic(call.identifier) /\ GUIDFailure(call.identifier)) =>
        FellThroughToName

\* C5 amended: an identifier that is not all digits, passes the
\* length/alphabet heuristic and is no valid APM/APPLICATION GUID is
\* resolved by name lookup; the GUID failure is never returned.
C5_FallThroughNonNumeric ==
    (/\ Resolving
     /\ ~AllDigits(call.identifier)
     /\ PassesHeuristic(call.identifier)
     /\ GUIDFailure(call.identifier)) =>
        FellThroughToName

C5_Witness ==
    /\ Resolved
    /\ call.identifier = EncodeGUID(Str2712640, BROWSER, APPLICATION, Str137708979)
    /\ Len(requests) = 1
    /\ ret.err.type = "nil"
    /\ ret.val = Str137708979

-----------------------------------------------------------------------------
(* Properties of the response mappers *)

ListMappers ==
    {"SearchEntities", "ListDashboards", "ListLogParsingRules", "ListUsers", "SearchAPIKeys",
     "QueryNRQL"}

Mappers == ListMappers \cup {"GetUser", "GetDashboard", "GetAlertPolicy", "GetAPIAccessKey"}

\* The keys a mapper walks in the data of its response
WalkedPath(op) ==
    CASE op \in {"SearchEntities", "ListDashboards"} -> EntitySearchPath
      [] op \in {"ListUsers", "GetUser"} -> UsersPath \o <<"authenticationDomains">>
      [] op = "ListLogParsingRules" -> <<"actor", "account", "logConfigurations", "parsingRules">>
      [] op = "SearchAPIKeys" -> <<"actor", "apiAccess", "keySearch", "keys">>
      [] op = "QueryNRQL" -> <<"actor", "account", "nrql", "results">>
      [] op = "GetDashboard" -> <<"actor", "entity">>
      [] op = "GetAlertPolicy" -> <<"actor", "account", "alerts", "policy">>
      [] op = "GetAPIAccessKey" -> <<"actor", "apiAccess", "key">>

\* The first key of path at which data holds no object (no value of the
\* given kind, for the last key); 0 when the walk succeeds
FirstMissing(data, path, kind) ==
    LET missing == {i \in 1..Len(path) :
                       At(data, SubSeq(path, 1, i)).t # (IF i = Len(path) THEN kind ELSE "obj")}
    IN  IF missing = {} THEN 0 ELSE CHOOSE i \in missing : \A j \in missing : i <= j

FirstMissingKey(op, data) ==
    FirstMissing(data, WalkedPath(op), IF op \in ListMappers \cup {"GetUser"} THEN "list" ELSE "obj")

\* The error names the key: "... missing <key>" or "<key> not found"
NamesKey(err, key) ==
    \/ err.type = "ResponseError" /\ err.msg = "unexpected response format: missing " \o key
    \/ err.type = "errorString" /\ err.format \in {key \o " not found", key \o " not found: %s"}

\* A mapper has returned on the one reply it was delivered
Mapped == pc = "done" /\ Len(replies) = 1 /\ Delivered(replies[1])

\* C6: every response mapper whose response lacks the expected object or
\* list at some level of the walked path fails with an error that names the
\* first missing key of the path, never with a generic format error.
C6_NamesMissingKey ==
    (Mapped /\ call.op \in Mappers /\ FirstMissingKey(call.op, replies[1].body.data) # 0) =>
        NamesKey(ret.err, WalkedPath(call.op)[FirstMissingKey(call.op, replies[1].body.data)])

\* The elements of the response list that a list mapper is to turn into
\* records, in source order: the objects; for ListUsers the user objects of
\* the domains, for ListLogParsingRules the objects not marked deleted
ObjectElements(op, list) ==
    CASE op = "ListUsers" -> UsersOf(list)
      [] op = "ListLogParsingRules" -> LiveRules(list)
      [] OTHER -> SelectSeq(list, LAMBDA e : e.t = "obj")

RecordOf(op, e) ==
    CASE op = "SearchEntities" -> Entity(e)
      [] op = "ListDashboards" -> Dashboard(e)
      [] op = "ListLogParsingRules" -> LogParsingRule(e)
      [] op = "ListUsers" -> User(e.user, e.domainName, <<>>)
      [] op = "SearchAPIKeys" -> parseApiAccessKey(e)
      [] op = "QueryNRQL" -> e

Collection(op, val) == IF op = "QueryNRQL" THEN val.Results ELSE val

OneRecordPerObject(op, list, val) ==
    /\ Len(val) = Len(ObjectElements(op, list))
    /\ \A i \in 1..Len(val) : val[i] = RecordOf(op, ObjectElements(op, list)[i])

\* C7: every list-returning mapper returns one record per object element
\* of the response list, in source order, and nothing for an element that
\* is not an object; it fails only when the list is absent or not a list.
C7_OneRecordPerObject ==
    (/\ Mapped
     /\ call.op \in ListMappers
     /\ At(replies[1].body.data, WalkedPath(call.op)).t = "list") =>
        /\ ret.err.type = "nil"
        /\ OneRecordPerObject(call.op, At(replies[1].body.data, WalkedPath(call.op)).l,
                              Collection(call.op, ret.val))

\* The reply decodes as a GraphQL response with a non-empty errors list
HasGraphQLErrors(reply) ==
    /\ reply.transport = "ok" /\ reply.status < 400
    /\ reply.body.json /\ reply.body.errors # <<>>

\* C9: a GraphQL call whose response has a non-empty top-level errors list
\* fails with the first error's message, whether or not data is present,
\* and returns no data.
C9_ErrorsAreFatal ==
    (pc = "done" /\ Len(replies) = 1 /\ HasGraphQLErrors(replies[1])) =>
        /\ ret.err = GraphQLError(replies[1].body.errors[1])
        /\ ret.val \in {Null, <<>>}

C9_Witness ==
    /\ pc = "done" /\ call.op = "NerdGraphQuery"
    /\ Len(replies) = 1 /\ HasGraphQLErrors(replies[1])
    /\ replies[1].body.data # Null
    /\ replies[1].body.errors = <<MsgDenied, MsgBoom>>
    /\ ret.err = GraphQLError(MsgDenied)
    /\ ret.val = Null

-----------------------------------------------------------------------------
(* Properties of the mutations *)

Mutations ==
    {"CreateLogParsingRule", "UpdateLogParsingRule", "DeleteLogParsingRule", "CreateDashboard",
     "UpdateDashboard", "DeleteDashboard", "CreateUserAPIKey", "UpdateAPIAccessKey",
     "DeleteAPIAccessKeys"}

\* The key of the data under which the result of a mutation lies
MutationKey(op) ==
    CASE op = "CreateLogParsingRule" -> "logConfigurationsCreateParsingRule"
      [] op = "UpdateLogParsingRule" -> "logConfigurationsUpdateParsingRule"
      [] op = "DeleteLogParsingRule" -> "logConfigurationsDeleteParsingRule"
      [] op = "CreateDashboard" -> "dashboardCreate"
      [] op = "UpdateDashboard" -> "dashboardUpdate"
      [] op = "DeleteDashboard" -> "dashboardDelete"
      [] op = "CreateUserAPIKey" -> "apiAccessCreateKeys"
      [] op = "UpdateAPIAccessKey" -> "apiAccessUpdateKeys"
      [] op = "DeleteAPIAccessKeys" -> "apiAccessDeleteKeys"

\* A mutation has returned on the reply to its mutation request
Mutated ==
    /\ pc = "done" /\ call.op \in Mutations
    /\ Len(requests) >= 1 /\ Len(replies) = Len(requests)
    /\ requests[Len(requests)].body.query = MutationKey(call.op)
    /\ Delivered(replies[Len(replies)])

EmbeddedErrors == At(replies[Len(replies)].body.data, <<MutationKey(call.op), "errors">>)

\* C8: every mutation examines the errors list embedded in the response
\* before the success payload; when the list is non-empty the call fails
\* with the message or description of the first error, whatever the
\* payload or status holds.
C8_ErrorsBeforePayload ==
    (Mutated /\ EmbeddedErrors.t = "list" /\ EmbeddedErrors.l # <<>>) =>
        /\ ret.err.type = "errorString"
        /\ ret.err.args =
              <<safeString(Get(EmbeddedErrors.l[1],
                               IF call.op \in {"CreateDashboard", "UpdateDashboard",
                                               "DeleteDashboard"}
                               THEN "description" ELSE "message"))>>

-----------------------------------------------------------------------------
(* Propagation of failures *)

\* The error with which the transport answers a reply; NoErr for a reply
\* that is delivered and decoded without errors
FailureOf(reply) ==
    IF reply.transport = "doFailed" THEN ResponseError("request failed")
    ELSE IF reply.transport = "readFailed" THEN ResponseError("failed to read response")
    ELSE IF reply.status >= 400 THEN APIError(reply.status)
    ELSE IF ~reply.body.json THEN ResponseError("failed to parse response")
    ELSE IF reply.body.errors # <<>> THEN GraphQLError(reply.body.errors[1])
    ELSE NoErr

\* The data of a delivered reply lacks the value the request asks for
ShapeFailure(req, reply) ==
    LET q == req.body.query
    IN  /\ Delivered(reply)
        /\ CASE q = "actor.apiAccess.key" ->
                    FirstMissing(reply.body.data, <<"actor", "apiAccess", "key">>, "obj") # 0
             [] q = "actor.account.logConfigurations.parsingRules" ->
                    FirstMissing(reply.body.data, WalkedPath("ListLogParsingRules"), "list") # 0
             [] q = "logConfigurationsUpdateParsingRule" ->
                    FirstMissing(reply.body.data, <<q, "rule">>, "obj") # 0
             [] q = "apiAccessDeleteKeys" ->
                    FirstMissing(reply.body.data, <<q, "deletedKeys">>, "list") # 0
             [] q = "actor.user" ->
                    FirstMissing(reply.body.data, <<"actor", "user">>, "obj") # 0
             [] q = "actor.account" ->
                    FirstMissing(reply.body.data, <<"actor", "account">>, "obj") # 0

\* C10: whenever a request of an operation ends in a transport, protocol
\* or shape failure, the operation returns at once, without another
\* request, and returns the failure as its error: the transport's or
\* protocol's error unmodified, and an error for a shape failure.
C10_FailuresPropagate ==
    \A i \in 1..Len(replies) :
        (IsErr(FailureOf(replies[i])) \/ ShapeFailure(requests[i], replies[i])) =>
            /\ pc = "done"
            /\ Len(requests) = i
            /\ IF IsErr(FailureOf(replies[i])) THEN ret.err = FailureOf(replies[i])
               ELSE IsErr(ret.err)

-----------------------------------------------------------------------------
(* The account ID of the client *)

\* The operations that work on the account of the client
AccountScoped ==
    {"QueryNRQL", "ListDashboards", "CreateDashboard", "ListLogParsingRules",
     "CreateLogParsingRule", "UpdateLogParsingRule", "DeleteLogParsingRule"}

\* C11: an account-scoped operation invoked on a client whose account ID
\* fails the format rules (empty, not numeric, not positive) issues no
\* request and returns an error.
C11_InvalidAccountShortCircuits ==
    (call.op \in AccountScoped /\ IsErr(NewAccountID(AccountID))) =>
        /\ requests = <<>>
        /\ pc = "done"
        /\ IsErr(ret.err)

-----------------------------------------------------------------------------
(* The update of a log parsing rule *)

\* The operation is UpdateLogParsingRule and has sent its mutation
UpdateSent == call.op = "UpdateLogParsingRule" /\ Len(requests) = 2

\* The rule that the reply to the list query holds under the ID: the first
\* element that is an object, is not marked deleted and has the ID
FetchedRule(reply, ruleID) ==
    SelectSeq(At(reply.body.data, WalkedPath("ListLogParsingRules")).l,
              LAMBDA r : r.t = "obj" /\ Get(r, "deleted") # Bool(TRUE)
                         /\ safeString(Get(r, "id")) = ruleID)[1]

\* The value the update writes for a field
Overlay(field, old) == IF field.set THEN field.v ELSE old

\* C12: the rule that UpdateLogParsingRule writes carries all five fields;
\* a field the caller set has the caller's value, and a field the caller
\* left unset has the value read from the existing rule in the fetch.
C12_FullReplacement ==
    UpdateSent =>
        requests[2].body.variables.rule =
            [description |-> Overlay(call.update.Description,
                                     safeString(Get(FetchedRule(replies[1], call.ruleID),
                                                    "description"))),
             enabled |-> Overlay(call.update.Enabled,
                                 Get(FetchedRule(replies[1], call.ruleID), "enabled") = Bool(TRUE)),
             grok |-> Overlay(call.update.Grok,
                              safeString(Get(FetchedRule(replies[1], call.ruleID), "grok"))),
             lucene |-> Overlay(call.update.Lucene,
                                safeString(Get(FetchedRule(replies[1], call.ruleID), "lucene"))),
             nrql |-> Overlay(call.update.NRQL,
                              safeString(Get(FetchedRule(replies[1], call.ruleID), "nrql")))]

\* A partial update of a rule with every field has been written: the
\* description set by the caller, the query kept from the fetch
C12_Witness ==
    /\ UpdateSent
    /\ call.update.Description.set /\ ~call.update.NRQL.set
    /\ requests[2].body.variables.rule.description = AppName
    /\ requests[2].body.variables.rule.nrql = MsgBoom
    /\ Get(FetchedRule(replies[1], call.ruleID), "description") = Str(MsgDenied)

\* C13: UpdateLogParsingRule first sends the query that reads the rules
\* and sends the update mutation only once that query has returned without
\* error; it sends nothing else, and when it succeeds it has sent both
\* requests and has received both replies.
C13_ReadThenWrite ==
    call.op = "UpdateLogParsingRule" =>
        /\ Len(requests) <= 2
        /\ Len(requests) >= 1 =>
              requests[1].body.query = "actor.account.logConfigurations.parsingRules"
        /\ Len(requests) = 2 =>
              /\ requests[2].body.query = "logConfigurationsUpdateParsingRule"
              /\ Len(replies) >= 1
              /\ ~IsErr(FailureOf(replies[1]))
        /\ (pc = "done" /\ ~IsErr(ret.err)) => (Len(requests) = 2 /\ Len(replies) = 2)

\* An update has succeeded
C13_Witness ==
    /\ call.op = "UpdateLogParsingRule"
    /\ pc = "done"
    /\ ~IsErr(ret.err)
    /\ ret.val.ID = Str7
    /\ Len(requests) = 2

\* The field of an update that goes into the key of the rule
UpdateOf(update, key) ==
    CASE key = "description" -> update.Description
      [] key = "enabled" -> update.Enabled
      [] key = "grok" -> update.Grok
      [] key = "lucene" -> update.Lucene
      [] key = "nrql" -> update.NRQL

RuleKeys == {"description", "enabled", "grok", "lucene", "nrql"}

\* The positions of the read and of the write of the running update in
\* the history of the server
ReadAt == CHOOSE i \in 1..Len(server) :
              /\ server[i].by = "client" /\ server[i].kind = "read"
              /\ \A j \in (i + 1)..Len(server) : server[j].by = "client" => server[j].kind = "write"
WriteAt == CHOOSE k \in 1..Len(server) :
              /\ server[k].by = "client" /\ server[k].kind = "write"
              /\ \A j \in (k + 1)..Len(server) : server[j].by # "client"

\* The running update has been written
UpdateWritten == call.op = "UpdateLogParsingRule" /\ Len(replies) = 2

\* Another writer changed the key of the rule between the read and the
\* write of the running update
ChangedBetween(key) ==
    \E j \in (ReadAt + 1)..(WriteAt - 1) :
        /\ server[j].by = "other"
        /\ Get(server[j].rule, key) # Get(server[j - 1].rule, key)

\* C14: when another writer changes a field of the rule after the read of
\* an UpdateLogParsingRule and before its write, and the caller did not set
\* that field, the write puts the value that was read in the place of the
\* other writer's value.
C14_LostUpdate ==
    UpdateWritten =>
        \A key \in RuleKeys :
            (~UpdateOf(call.update, key).set /\ ChangedBetween(key)) =>
                Get(server[WriteAt].rule, key) = Get(server[ReadAt].rule, key)

\* The update of another writer is lost: the query it wrote just before
\* the write of an update that does not set the query is gone
C14_Witness ==
    /\ UpdateWritten
    /\ ~call.update.NRQL.set
    /\ ChangedBetween("nrql")
    /\ server[WriteAt - 1].by = "other"
    /\ Get(server[WriteAt - 1].rule, "nrql") = Str(AppName)
    /\ Get(server[WriteAt].rule, "nrql") = Str(MsgBoom)
    /\ Get(Stored, "nrql") = Str(MsgBoom)

-----------------------------------------------------------------------------
(* The requests of an operation *)

\* Each request is sent after the reply to the one before it
OneAfterTheOther == Len(replies) \in {Len(requests) - 1, Len(requests)} \/ requests = <<>>

\* The operations the specification names as making two requests
NamedTwoRequestOps == {"ResolveAppID", "FindAPIAccessKey", "UpdateLogParsingRule"}

\* C15 as stated: no operation issues more than two requests, one after
\* the other, and only the resolver, the lookup of a key of unknown type
\* and the update of a log parsing rule issue two.
C15_TwoOnlyInNamedOps ==
    /\ Len(requests) <= 2
    /\ OneAfterTheOther
    /\ Len(requests) = 2 => call.op \in NamedTwoRequestOps

\* C15: no operation issues more than two requests, one after the other,
\* and only the resolver, the lookup of a key of unknown type, the update
\* of a log parsing rule and the connection test issue two.
C15_TwoOnlyInNamedOpsAndTest ==
    /\ Len(requests) <= 2
    /\ OneAfterTheOther
    /\ Len(requests) = 2 => call.op \in NamedTwoRequestOps \cup {"TestConnection"}

\* The connection test has queried the user and then the account
C15_Witness ==
    /\ call.op = "TestConnection"
    /\ pc = "done"
    /\ Len(requests) = 2 /\ Len(replies) = 2
    /\ requests[1].body.query = "actor.user"
    /\ requests[2].body.query = "actor.account"

\* The reply holds the key that was asked for
KeyFound(reply) ==
    /\ ~IsErr(FailureOf(reply))
    /\ FirstMissing(reply.body.data, <<"actor", "apiAccess", "key">>, "obj") = 0

\* C16: FindAPIAccessKey looks the key up as USER first and, when that
\* lookup succeeds, returns its key after this one request; only when it
\* fails does it look the key up as INGEST, and it returns what that lookup
\* returns; it issues no third request.
C16_UserThenIngest ==
    call.op = "FindAPIAccessKey" =>
        /\ Len(requests) <= 2
        /\ Len(requests) >= 1 => requests[1].body.variables.keyType = "USER"
        /\ Len(requests) = 2 =>
              /\ requests[2].body.variables.keyType = "INGEST"
              /\ Len(replies) >= 1
              /\ ~KeyFound(replies[1])
        /\ (Len(replies) >= 1 /\ KeyFound(replies[1])) =>
              /\ pc = "done"
              /\ Len(requests) = 1
              /\ ~IsErr(ret.err)
              /\ ret.val = parseApiAccessKey(At(replies[1].body.data,
                                                <<"actor", "apiAccess", "key">>))
        /\ (Len(replies) = 2 /\ KeyFound(replies[2])) =>
              /\ pc = "done"
              /\ ~IsErr(ret.err)
              /\ ret.val = parseApiAccessKey(At(replies[2].body.data,
                                                <<"actor", "apiAccess", "key">>))

\* The key was not found as USER and then found as INGEST
C16_Witness ==
    /\ call.op = "FindAPIAccessKey"
    /\ pc = "done"
    /\ Len(requests) = 2
    /\ requests[2].body.variables.keyType = "INGEST"
    /\ ~KeyFound(replies[1]) /\ KeyFound(replies[2])
    /\ ret.val.ID = Str7

-----------------------------------------------------------------------------
(* Deleted log parsing rules *)

\* The operation reads the rules and the reply to its query holds a list
RulesRead ==
    /\ call.op \in {"ListLogParsingRules", "GetLogParsingRule", "UpdateLogParsingRule"}
    /\ Len(replies) >= 1
    /\ Delivered(replies[1])
    /\ At(replies[1].body.data, WalkedPath("ListLogParsingRules")).t = "list"

RulesList == At(replies[1].body.data, WalkedPath("ListLogParsingRules")).l

\* The rule objects of the reply that are flagged deleted=true, and the others
FlaggedDeleted == {i \in 1..Len(RulesList) :
                      RulesList[i].t = "obj" /\ Get(RulesList[i], "deleted") = Bool(TRUE)}
NotFlagged == {i \in 1..Len(RulesList) :
                  RulesList[i].t = "obj" /\ Get(RulesList[i], "deleted") # Bool(TRUE)}

\* The rules the operation hands to its caller
Surfaced ==
    IF pc # "done" \/ IsErr(ret.err) THEN {}
    ELSE IF call.op = "ListLogParsingRules" THEN {ret.val[i] : i \in 1..Len(ret.val)}
    ELSE IF call.op = "GetLogParsingRule" THEN {ret.val}
    ELSE {}

\* C17: no operation that reads the log parsing rules surfaces a rule the
\* response flags deleted=true: every rule ListLogParsingRules returns is
\* a rule that is not flagged, and it returns as many rules as are not
\* flagged; the lookup of an ID that only flagged rules carry fails with
\* "rule not found" and sends nothing further.
C17_DeletedNeverSurfaced ==
    RulesRead =>
        /\ \A r \in Surfaced :
              /\ \E i \in NotFlagged : r = LogParsingRule(RulesList[i])
              /\ \A i \in FlaggedDeleted : r.ID # safeString(Get(RulesList[i], "id"))
        /\ call.op = "ListLogParsingRules" =>
              (pc = "done" /\ ~IsErr(ret.err) /\ Len(ret.val) = Cardinality(NotFlagged))
        /\ (/\ call.op \in {"GetLogParsingRule", "UpdateLogParsingRule"}
            /\ \A i \in NotFlagged : safeString(Get(RulesList[i], "id")) # call.ruleID) =>
              /\ pc = "done"
              /\ Len(requests) = 1
              /\ ret.err = Errorf("rule not found: %s", <<call.ruleID>>)

\* A rule flagged deleted was looked up by its ID, next to a live rule
C17_Witness ==
    /\ RulesRead
    /\ call.op = "GetLogParsingRule"
    /\ pc = "done"
    /\ \E i \in FlaggedDeleted : safeString(Get(RulesList[i], "id")) = call.ruleID
    /\ NotFlagged # {}
    /\ ret.err = Errorf("rule not found: %s", <<call.ruleID>>)

-----------------------------------------------------------------------------
(* The users of the authentication domains *)

\* ListUsers has returned on a reply that holds the list of domains
UsersListed ==
    /\ call.op = "ListUsers"
    /\ Mapped
    /\ At(replies[1].body.data, WalkedPath("ListUsers")).t = "list"

DomainsList == At(replies[1].body.data, WalkedPath("ListUsers")).l

\* The list users.users of domain d; the empty list when there is none
UsersListOf(d) ==
    IF At(DomainsList[d], <<"users", "users">>).t = "list"
    THEN At(DomainsList[d], <<"users", "users">>).l ELSE <<>>

\* The user objects of the response: <<d, u>> for user u of domain d
UserObjects ==
    UNION {{<<d, u>> : u \in {i \in 1..Len(UsersListOf(d)) : UsersListOf(d)[i].t = "obj"}} :
              d \in 1..Len(DomainsList)}

\* The position of a user object in domain order, then user order
Position(p) ==
    1 + Cardinality({q \in UserObjects : q[1] < p[1] \/ (q[1] = p[1] /\ q[2] < p[2])})

\* C18: ListUsers returns one flat list with a user for every user object
\* of every authentication domain of the response, in domain order and
\* then user order, each with the name of the domain it came from.
C18_FlatUsersWithDomain ==
    UsersListed =>
        /\ ~IsErr(ret.err)
        /\ Len(ret.val) = Cardinality(UserObjects)
        /\ \A p \in UserObjects :
              /\ ret.val[Position(p)].ID = safeString(Get(UsersListOf(p[1])[p[2]], "id"))
              /\ ret.val[Position(p)].Name = safeString(Get(UsersListOf(p[1])[p[2]], "name"))
              /\ ret.val[Position(p)].Email = safeString(Get(UsersListOf(p[1])[p[2]], "email"))
              /\ ret.val[Position(p)].Type =
                    safeString(At(UsersListOf(p[1])[p[2]], <<"type", "displayName">>))
              /\ ret.val[Position(p)].AuthenticationDomain =
                    safeString(Get(DomainsList[p[1]], "name"))

\* The users of two domains with different names have been listed
C18_Witness ==
    /\ UsersListed
    /\ Len(DomainsList) = 2
    /\ Len(ret.val) = 3
    /\ ret.val[1].AuthenticationDomain # ret.val[2].AuthenticationDomain
    /\ ret.val[2].ID # ret.val[3].ID
    /\ ret.val[2].AuthenticationDomain = ret.val[3].AuthenticationDomain

-----------------------------------------------------------------------------
(* The time-range filter of the deployments *)

\* The filter has returned
Filtered == pc = "done" /\ call.op = "FilterDeploymentsByTime"

\* Record i of the input is in the output
Kept(i) == \E j \in 1..Len(ret.val) : ret.val[j] = call.deployments[i]

\* The timestamp of record i of the input parses
Parseable(i) == ~IsErr(ParseDeploymentTimestamp(call.deployments[i].Timestamp).err)

\* The parsed timestamp of record i of the input
Stamp(i) == ParseDeploymentTimestamp(call.deployments[i].Timestamp).t

SinceSet == call.since # ZeroTime

UntilSet == call.until # ZeroTime

\* The output is a selection of the input, in the order of the input
InInputOrder ==
    /\ \A j \in 1..Len(ret.val) : \E i \in 1..Len(call.deployments) : ret.val[j] = call.deployments[i]
    /\ \A j, k \in 1..Len(ret.val) : j < k => ret.val[j].ID < ret.val[k].ID

\* C19: a record whose timestamp cannot be parsed is in the output of the
\* time-range filter, whatever the since and until bounds are.
C19_UnparseableKept ==
    Filtered =>
        \A i \in 1..Len(call.deployments) : ~Parseable(i) => Kept(i)

\* With both bounds set, a record that does not parse has been kept next
\* to a record that was dropped
C19_Witness ==
    /\ Filtered
    /\ SinceSet
    /\ UntilSet
    /\ \E i, k \in 1..Len(call.deployments) :
          /\ ~Parseable(i)
          /\ Kept(i)
          /\ Parseable(k)
          /\ ~Kept(k)

\* Record i of the input lies outside a bound that is set
Outside(i) ==
    \/ SinceSet /\ Before(Stamp(i), call.since)
    \/ UntilSet /\ After(Stamp(i), call.until)

\* Record i of the input lies on a bound that is set
OnBound(i) ==
    \/ SinceSet /\ Stamp(i) = call.since
    \/ UntilSet /\ Stamp(i) = call.until

\* Both bounds are set and since is after until
Inverted == SinceSet /\ UntilSet /\ After(call.since, call.until)

\* C20 as stated: the time-range filter drops a record with a parseable
\* timestamp t exactly when since is set and t is strictly before since,
\* or until is set and t is strictly after until; a record whose timestamp
\* equals since or until is always kept, and with neither bound set the
\* output is the input.
C20_InclusiveBounds ==
    Filtered =>
        /\ InInputOrder
        /\ \A i \in 1..Len(call.deployments) :
              Parseable(i) => /\ ~Kept(i) <=> Outside(i)
                              /\ OnBound(i) => Kept(i)
        /\ ~SinceSet /\ ~UntilSet => ret.val = call.deployments

\* C20: the time-range filter drops a record with a parseable timestamp t
\* exactly when since is set and t is strictly before since, or until is
\* set and t is strictly after until; a record whose timestamp equals
\* since or until is kept unless since is after until, and with neither
\* bound set the output is the input.
C20_InclusiveBoundsInOrder ==
    Filtered =>
        /\ InInputOrder
        /\ \A i \in 1..Len(call.deployments) :
              Parseable(i) => /\ ~Kept(i) <=> Outside(i)
                              /\ OnBound(i) /\ ~Inverted => Kept(i)
        /\ ~SinceSet /\ ~UntilSet => ret.val = call.deployments

\* A record on the since bound and a record on the until bound have been
\* kept, the second being the last instant within the bounds as a record
\* half a second later was dropped
C20_Witness ==
    /\ Filtered
    /\ SinceSet
    /\ \E i, k \in 1..Len(call.deployments) :
          /\ Parseable(i)
          /\ Stamp(i) = call.since
          /\ Stamp(i) = call.until
          /\ Kept(i)
          /\ Parseable(k)
          /\ After(Stamp(k), call.until)
          /\ Stamp(k).day = call.until.day
          /\ ~Kept(k)

-----------------------------------------------------------------------------
(* The errors of the flexible time parser *)

\* ParseFlexibleTime has returned
TimeParsed == pc = "done" /\ call.op = "ParseFlexibleTime"

\* Nothing but white space
Blank(s) == \A i \in 1..Len(s) : s[i] \in asciiSpace

AllIn(s, set) == \A i \in 1..Len(s) : s[i] \in set

Keywords == {B(<<"n", "o", "w">>), B(<<"t", "o", "d", "a", "y">>), B(<<"y", "e", "s", "t", "e", "r", "d", "a", "y">>)}

\* Digits, white space, a unit with or without s, white space, ago
IsRelative(l) ==
    \E i, j, k \in 1..Len(l) :
        /\ i < j
        /\ j < k
        /\ k + 1 <= Len(l) - 3
        /\ AllIn(SubSeq(l, 1, i), 48..57)
        /\ AllIn(SubSeq(l, i + 1, j), {9, 10, 12, 13, 32})
        /\ \E u \in 1..Len(timeUnits) :
              SubSeq(l, j + 1, k) \in {timeUnits[u], timeUnits[u] \o B(<<"s">>)}
        /\ AllIn(SubSeq(l, k + 1, Len(l) - 3), {9, 10, 12, 13, 32})
        /\ SubSeq(l, Len(l) - 2, Len(l)) = B(<<"a", "g", "o">>)

IsFixed(o) == \E f \in 1..Len(timeFormats) : Parse(timeFormats[f], o).ok

\* No strategy of the parser takes the expression
NoStrategy(s) ==
    /\ ToLower(TrimSpace(s)) \notin Keywords
    /\ ~IsRelative(ToLower(TrimSpace(s)))
    /\ ~IsFixed(TrimSpace(s))

\* C22: ParseFlexibleTime fails with "empty time string" for empty and
\* white-space-only input, and with "unable to parse time" for input that
\* is no keyword, no relative expression and in no fixed format; both
\* errors come with the zero timestamp, and it fails in no other case.
C22_EmptyAndUnparseable ==
    TimeParsed =>
        /\ Blank(call.s) =>
              /\ ret.err = Errorf("empty time string", <<>>)
              /\ ret.val = ZeroTime
        /\ ~Blank(call.s) /\ NoStrategy(call.s) =>
              /\ ret.err = Errorf("unable to parse time: %s", <<TrimSpace(call.s)>>)
              /\ ret.val = ZeroTime
        /\ IsErr(ret.err) => Blank(call.s) \/ NoStrategy(call.s)

\* White space alone has been refused as empty
C22_Witness ==
    /\ TimeParsed
    /\ call.s # <<>>
    /\ Blank(call.s)
    /\ ret.err = Errorf("empty time string", <<>>)
    /\ ret.val = ZeroTime

-----------------------------------------------------------------------------
(* The deployments list command *)

\* The flag is set and ParseFlexibleTime refuses it
BadTime(s) == s # <<>> /\ IsErr(ParseFlexibleTime(s, call.now, call.offset).err)

\* C21: in the deployments list command, when the --since or the --until
\* expression cannot be parsed, the command fails and has issued no HTTP
\* request: the time parser runs before the deployments request is built.
C21_TimesBeforeRequests ==
    call.op = "runList" /\ (BadTime(call.opts.since) \/ BadTime(call.opts.until)) =>
        /\ requests = <<>>
        /\ pc = "done"
        /\ IsErr(ret.err)

-----------------------------------------------------------------------------
(* The GUID codec *)

\* ParseGUID has returned
GUIDParsed == pc = "done" /\ call.op = "ParseGUID"

\* No part holds the separator
Pipeless(p) == \A i \in 1..4 : ~Has(p[i], Pipe)

\* C23 as stated: for any prefix, domain, entity type and entity ID,
\* decoding base64(prefix|domain|type|id) recovers the four parts, in order.
C23_RoundTripAnyParts ==
    GUIDParsed =>
        \A p \in GUIDParts :
            call.guid = EncodeGUID(p[1], p[2], p[3], p[4]) =>
                /\ ~IsErr(ret.err)
                /\ ret.val = p

\* C23: for any prefix, domain, entity type and entity ID none of which
\* holds the separator '|', decoding base64(prefix|domain|type|id)
\* recovers the four parts, in order.
C23_RoundTrip ==
    GUIDParsed =>
        \A p \in GUIDParts :
            Pipeless(p) /\ call.guid = EncodeGUID(p[1], p[2], p[3], p[4]) =>
                /\ ~IsErr(ret.err)
                /\ ret.val = p

\* The GUID of an APM application has been decoded into its four parts
C23_Witness ==
    /\ GUIDParsed
    /\ call.guid = EncodeGUID(Str2712640, APM, APPLICATION, Str137708979)
    /\ ~IsErr(ret.err)
    /\ ret.val = <<Str2712640, APM, APPLICATION, Str137708979>>

\* ExtractAppIDFromGUID has returned
AppIDExtracted == pc = "done" /\ call.op = "ExtractAppIDFromGUID"

\* The payload of the GUID, split at the separator; none when the GUID is
\* no base64
Payload(guid) ==
    IF DecodeString(guid).ok THEN Split(DecodeString(guid).bytes, Pipe) ELSE <<>>

\* C24: ExtractAppIDFromGUID succeeds only for a GUID of four parts whose
\* domain is exactly APM and whose type is exactly APPLICATION, and then
\* returns the fourth part; for every other GUID it returns an error and
\* the empty ID.
C24_OnlyAPMApplications ==
    AppIDExtracted =>
        IF /\ Len(Payload(call.guid)) = 4
           /\ Payload(call.guid)[2] = APM
           /\ Payload(call.guid)[3] = APPLICATION
        THEN ~IsErr(ret.err) /\ ret.val = Payload(call.guid)[4]
        ELSE IsErr(ret.err) /\ ret.val = <<>>

\* The GUID of an APM host has been refused
C24_Witness ==
    /\ AppIDExtracted
    /\ call.guid = EncodeGUID(Str2712640, APM, HOST, Str137708979)
    /\ IsErr(ret.err)
    /\ ret.val = <<>>

-----------------------------------------------------------------------------
(* The validation of an account ID *)

\* NewAccountID has returned
AccountChecked == pc = "done" /\ call.op = "NewAccountID"

\* The digits of s after an optional sign
Unsigned(s) == IF s # <<>> /\ s[1] \in {43, 45} THEN Tail(s) ELSE s

\* A base-10 integer that fits in 64 bits: an optional sign and digits,
\* at most nineteen of them
IsDecimal(s) ==
    /\ Unsigned(s) # <<>>
    /\ \A i \in 1..Len(Unsigned(s)) : Unsigned(s)[i] \in 48..57
    /\ Len(Unsigned(s)) < 20

\* The integer is greater than 0
IsPositive(s) == s[1] # 45 /\ \E i \in 1..Len(Unsigned(s)) : Unsigned(s)[i] \in 49..57

\* The number the digits denote, most significant digit first
RECURSIVE Denoted(_)
Denoted(digits) ==
    IF digits = <<>> THEN 0
    ELSE (digits[1] - 48) * pow10(Len(digits) - 1) + Denoted(Tail(digits))

\* C25: NewAccountID accepts a string exactly when it is not empty, parses
\* as a base-10 integer and that integer is greater than 0, and the
\* accepted ID converts to that integer; the empty, the non-numeric and
\* the non-positive string are refused with three different errors.
C25_PositiveIntegersOnly ==
    AccountChecked =>
        /\ ~IsErr(ret.err) <=> call.s # <<>> /\ IsDecimal(call.s) /\ IsPositive(call.s)
        /\ ~IsErr(ret.err) =>
              /\ ret.val.id = call.s
              /\ ret.val.int = Denoted(Unsigned(call.s))
        /\ call.s = <<>> => ret.err = Errorf("account ID cannot be empty", <<>>)
        /\ call.s # <<>> /\ ~IsDecimal(call.s) =>
              ret.err = Errorf("invalid account ID %q: must be numeric", <<call.s>>)
        /\ IsDecimal(call.s) /\ ~IsPositive(call.s) =>
              ret.err = Errorf("invalid account ID %q: must be a positive number", <<call.s>>)
        /\ IsErr(ret.err) => ret.val.id = <<>>

\* Zero has been refused as not positive
C25_Witness ==
    /\ AccountChecked
    /\ call.s = B(<<"0">>)
    /\ ret.err = Errorf("invalid account ID %q: must be a positive number", <<call.s>>)
    /\ ret.err # Errorf("invalid account ID %q: must be numeric", <<call.s>>)

-----------------------------------------------------------------------------
(* The safe accessors *)

\* A safe accessor has returned
Accessed == pc = "done" /\ call.op \in SafeAccessors

\* C26: the safe accessors return for every input: safeMap and safeSlice
\* return the zero value and ok = false for nil, a string, a number and a
\* bool, safeString returns "" for everything but a string, and safeInt
\* returns 0 for everything but a number.
C26_AccessorsAreTotal ==
    /\ call.op \in SafeAccessors => pc = "done" /\ ~IsErr(ret.err)
    /\ Accessed =>
          /\ call.op = "safeMap" /\ call.v.t \in {"null", "str", "num", "bool"} =>
                ret.val = [m |-> Null, ok |-> FALSE]
          /\ call.op = "safeSlice" /\ call.v.t \in {"null", "str", "num", "bool"} =>
                ret.val = [s |-> <<>>, ok |-> FALSE]
          /\ call.op = "safeString" /\ call.v.t # "str" => ret.val = <<>>
          /\ call.op = "safeInt" /\ call.v.t # "num" => ret.val = 0

\* safeMap has refused nil
C26_Witness ==
    /\ Accessed
    /\ call.op = "safeMap"
    /\ call.v = Null
    /\ ret.val = [m |-> Null, ok |-> FALSE]

-----------------------------------------------------------------------------
(* Properties of the delete commands *)

DeleteCommands ==
    {"runDeleteRule", "keys.runDelete", "dashboards.runDelete", "runDeleteAPIKey",
     "runDeleteAccountID"}

DeleteMutations ==
    {"logConfigurationsDeleteParsingRule", "apiAccessDeleteKeys", "dashboardDelete"}

\* The positions of the delete requests among the requests reqs
DeleteRequests(reqs) == {i \in DOMAIN reqs : reqs[i].body.query \in DeleteMutations}

\* The inputs whose first line, without the surrounding blanks and the case
\* of its letters, is y or yes
Assent ==
    {B(<<"y", "\n">>), B(<<"y", "e", "s", "\n">>), B(<<"Y", "\n">>),
     B(<<" ", "Y", "e", "s", " ", "\n">>), B(<<"y", "\n", "n", "\n">>)}

\* The command c prompts and is not answered with y or yes
Refused(c) == c.op \in DeleteCommands /\ ~c.opts.force /\ c.opts.Stdin \notin Assent

\* C27: a delete command that is run without --force and whose prompt is
\* answered with anything but y or yes (the answer is the first line of the
\* input, trimmed and in any case; an empty line, no input at all and input
\* that ends before the end of the line are no answer) sends no delete
\* request and leaves the credentials file as it is, at every step.
C27_NoDeleteWithoutAssent ==
    [][Refused(call') => (stored' = stored /\ DeleteRequests(requests') = {})]_vars

\* The dashboard command has fetched the dashboard, has prompted, has read
\* a y that no end of line follows, and has canceled
C27_Witness ==
    /\ pc = "done"
    /\ call.op = "dashboards.runDelete"
    /\ Refused(call)
    /\ call.opts.Stdin = B(<<"y">>)
    /\ Len(requests) = 1
    /\ requests[1].body.query = "actor.entity"
    /\ ret = [err |-> NoErr, val |-> Warning("Operation canceled")]

-----------------------------------------------------------------------------
(* Properties of the configuration getters *)

Getters == {"GetAPIKey", "GetAccountID", "GetRegion"}

\* The environment variable and the stored key of a getter
VariableOf(op) ==
    CASE op = "GetAPIKey" -> "NEWRELIC_API_KEY"
      [] op = "GetAccountID" -> "NEWRELIC_ACCOUNT_ID"
      [] op = "GetRegion" -> "NEWRELIC_REGION"
KeyOf(op) ==
    CASE op = "GetAPIKey" -> APIKeyKey
      [] op = "GetAccountID" -> AccountIDKey
      [] op = "GetRegion" -> RegionKey

\* The value stored under key, empty when none is stored
StoredValue(key) == IF key \in DOMAIN stored THEN stored[key] ELSE <<>>

\* C28: a getter of the configuration returns the value of the NEWRELIC_*
\* variable when the variable is set (the region in upper case), the stored
\* value only when the variable is unset, and the default (US for the
\* region, an error for the API key and the account ID) only when neither
\* is set.
C28_EnvironmentFirst ==
    (pc = "done" /\ call.op \in Getters) =>
        IF call.env[VariableOf(call.op)] # <<>>
        THEN /\ ~IsErr(ret.err)
             /\ ret.val = IF call.op = "GetRegion" THEN ToUpper(call.env[VariableOf(call.op)])
                          ELSE call.env[VariableOf(call.op)]
        ELSE IF StoredValue(KeyOf(call.op)) # <<>>
        THEN ~IsErr(ret.err) /\ ret.val = StoredValue(KeyOf(call.op))
        ELSE IF call.op = "GetRegion" THEN ret.val = US
        ELSE IsErr(ret.err)

-----------------------------------------------------------------------------
(* The update of a log parsing rule and the fetch before it *)

Range(s) == {s[i] : i \in DOMAIN s}

\* The reply to the list query is delivered and lists a rule with the ID
\* that is not marked deleted
RuleListed(reply, ruleID) ==
    /\ Delivered(reply)
    /\ At(reply.body.data, WalkedPath("ListLogParsingRules")).t = "list"
    /\ \E r \in Range(At(reply.body.data, WalkedPath("ListLogParsingRules")).l) :
          /\ r.t = "obj"
          /\ Get(r, "deleted") # Bool(TRUE)
          /\ Get(r, "id") = Str(ruleID)

\* C29: UpdateLogParsingRule sends its mutation only after a fetch that
\* found the rule.  Without an account ID it sends nothing and fails; the
\* mutation is never the first request and follows a reply that lists the
\* rule; and once the fetch has failed or has come back without the rule
\* (a rule marked deleted counts as absent) the operation has failed with
\* the fetch as its only request.
C29_MutationOnlyForFetchedRule ==
    call.op = "UpdateLogParsingRule" =>
        /\ AccountID = <<>> => (requests = <<>> /\ pc = "done" /\ IsErr(ret.err))
        /\ \A i \in DOMAIN requests :
              requests[i].body.query = "logConfigurationsUpdateParsingRule" =>
                  (i > 1 /\ RuleListed(replies[1], call.ruleID))
        /\ (Len(replies) >= 1 /\ ~RuleListed(replies[1], call.ruleID)) =>
              (pc = "done" /\ IsErr(ret.err) /\ Len(requests) = 1)

\* The fetch has listed the rule as deleted and nothing else, and the
\* update has failed without a mutation
C29_Witness ==
    /\ call.op = "UpdateLogParsingRule"
    /\ pc = "done"
    /\ call.ruleID = Str1377
    /\ Len(replies) = 1
    /\ Delivered(replies[1])
    /\ At(replies[1].body.data, WalkedPath("ListLogParsingRules")).t = "list"
    /\ \E r \in Range(At(replies[1].body.data, WalkedPath("ListLogParsingRules")).l) :
          r.t = "obj" /\ Get(r, "id") = Str(Str1377) /\ Get(r, "deleted") = Bool(TRUE)
    /\ ret.err = Errorf("rule not found: %s", <<Str1377>>)
    /\ Len(requests) = 1

-----------------------------------------------------------------------------
(* Properties of keys delete *)

\* keys delete runs without --type
LooksTypesUp == call.op = "keys.runDelete" /\ call.opts.keyType = <<>>

\* The key in the data of a reply to a lookup
KeyIn(reply) == At(reply.body.data, <<"actor", "apiAccess", "key">>)

\* Request i looks the key up and the reply to it holds a key
Found(i, id) ==
    /\ i <= Len(replies)
    /\ requests[i].body.query = "actor.apiAccess.key"
    /\ requests[i].body.variables.id = id
    /\ Delivered(replies[i])
    /\ KeyIn(replies[i]).t = "obj"

\* Request i has found the key with the type t
Reports(i, id, t) == Found(i, id) /\ Get(KeyIn(replies[i]), "type") = Str(t)

\* A lookup before request n has found the key to be a USER or an INGEST key
Determined(id, n) ==
    \E i \in 1..(n - 1) : Reports(i, id, USER) \/ Reports(i, id, INGEST)

\* The command is over, has looked the key up, and no lookup has found it
LookupFailed(id) ==
    /\ pc = "done"
    /\ \E i \in DOMAIN requests :
          requests[i].body.query = "actor.apiAccess.key" /\ requests[i].body.variables.id = id
    /\ \A i \in DOMAIN requests : ~Found(i, id)

\* The key has been found with a type that is neither USER nor INGEST
OtherType(id) ==
    \E i \in DOMAIN requests :
        Found(i, id) /\ ~Reports(i, id, USER) /\ ~Reports(i, id, INGEST)

\* C30: keys delete without --type sends the delete mutation at most once,
\* and only after a lookup has found every listed key to be a USER or an
\* INGEST key; when the lookup of a key fails or reports another type, the
\* command fails and has sent no delete.
C30_DeleteAfterEveryLookup ==
    LooksTypesUp =>
        /\ Cardinality(DeleteRequests(requests)) <= 1
        /\ \A n \in DeleteRequests(requests) :
              \A k \in DOMAIN call.keyIDs : Determined(call.keyIDs[k], n)
        /\ \A k \in DOMAIN call.keyIDs :
              (LookupFailed(call.keyIDs[k]) \/ OtherType(call.keyIDs[k])) =>
                  (pc = "done" /\ IsErr(ret.err) /\ DeleteRequests(requests) = {})

\* Of two keys the first is a USER key and the second is of another type:
\* the command has failed and has deleted neither
C30_Witness ==
    /\ LooksTypesUp
    /\ pc = "done"
    /\ Len(call.keyIDs) = 2
    /\ Reports(1, call.keyIDs[1], USER)
    /\ Reports(2, call.keyIDs[2], BROWSER)
    /\ ret.err = Errorf("unexpected key type %q for key %s", <<BROWSER, call.keyIDs[2]>>)
    /\ DeleteRequests(requests) = {}

====
